---- MODULE Spec2Model ----
(***************************************************************************)
(* Time-travel trading: the two recursive greedy strategies                *)
(* (src/src/strategies.py) and the replay validator (src/src/validator.py).*)
(*                                                                         *)
(* Money is fixed point: one unit of cash is 1/Scale of a price unit, so   *)
(* the commission factors 1.01 and 0.99 are the integers 101 and 99 and    *)
(* every product and floor division of the code is computed exactly.       *)
(* Binary floating-point rounding is not modelled.                         *)
(***************************************************************************)
EXTENDS Integers, Sequences, FiniteSets, TLC

(***************************************************************************)
(* Bounds of the model.                                                    *)
(***************************************************************************)
MaxDate == 2
MaxMoves == 3
MaxPastPairs == 2
\* _dynamic_max_pairs on its own: the largest finite base and the largest
\* number of remaining years.
MaxBase == 7
MaxRemaining == 41

(***************************************************************************)
(* Configuration constants, src/src/config.py.                             *)
(***************************************************************************)
Scale == 100
COMMISSION_RATE == 1
BUY_COST_FACTOR == Scale + COMMISSION_RATE
SELL_REVENUE_FACTOR == Scale - COMMISSION_RATE

(***************************************************************************)
(* Conversions between values and the strings of a move tuple.             *)
(* str(row['Date'])[:10] and str(quantity) on the strategies' side,        *)
(* strptime(date_str, '%Y-%m-%d') and int(quantity_str) on the validator's.*)
(* A date string is one of the names of the calendar; a quantity string is *)
(* the sequence of its characters.                                         *)
(***************************************************************************)
\* The dates of the model in chronological order; a date is its position in
\* the calendar.
Calendar ==
    << [name |-> "2020-01-01", year |-> 2020, month |-> 1],
       [name |-> "2020-01-02", year |-> 2020, month |-> 1],
       [name |-> "2020-02-01", year |-> 2020, month |-> 2],
       [name |-> "2021-02-01", year |-> 2021, month |-> 2],
       [name |-> "2021-02-02", year |-> 2021, month |-> 2],
       [name |-> "2021-03-01", year |-> 2021, month |-> 3] >>

DateNames == [d \in 1..Len(Calendar) |-> Calendar[d].name]
\* pd.to_datetime(df['Date']).dt.year, .dt.month
YearOf(d) == Calendar[d].year
MonthOf(d) == Calendar[d].month
DigitNames == << "0", "1", "2", "3", "4", "5", "6", "7", "8", "9" >>

DateToStr(d) == DateNames[d]

\* str(quantity): the decimal digits, with a minus sign for a negative number.
RECURSIVE DigitsOf(_)
DigitsOf(n) ==
    IF n < 10 THEN << DigitNames[n + 1] >>
    ELSE DigitsOf(n \div 10) \o << DigitNames[(n % 10) + 1] >>

IntToStr(q) == IF q < 0 THEN << "-" >> \o DigitsOf(0 - q) ELSE DigitsOf(q)

CanParseDate(s) == \E d \in 1..Len(DateNames) : DateNames[d] = s
ParseDate(s) == CHOOSE d \in 1..Len(DateNames) : DateNames[d] = s

\* int(quantity_str): an optional sign, then one or more decimal digits.
IsDigit(c) == \E k \in 1..Len(DigitNames) : DigitNames[k] = c
DigitValue(c) == (CHOOSE k \in 1..Len(DigitNames) : DigitNames[k] = c) - 1
Unsigned(s) == IF s # << >> /\ Head(s) \in {"+", "-"} THEN Tail(s) ELSE s

CanParseInt(s) ==
    /\ Unsigned(s) # << >>
    /\ \A i \in 1..Len(Unsigned(s)) : IsDigit(Unsigned(s)[i])

RECURSIVE ValueOf(_)
ValueOf(digits) ==
    IF digits = << >> THEN 0
    ELSE 10 * ValueOf(SubSeq(digits, 1, Len(digits) - 1))
         + DigitValue(digits[Len(digits)])

ParseInt(s) ==
    IF Head(s) = "-" THEN 0 - ValueOf(Unsigned(s)) ELSE ValueOf(Unsigned(s))

(***************************************************************************)
(* Sequence helpers.                                                       *)
(***************************************************************************)
Min(a, b) == IF a <= b THEN a ELSE b
Max(a, b) == IF a >= b THEN a ELSE b

SeqRange(s) == {s[i] : i \in 1..Len(s)}

(***************************************************************************)
(* The state of the program.                                               *)
(*   combined_data  the cleaned bars, sorted by date (main.py:44)          *)
(*   initial_cash   the starting cash                                      *)
(*   strategy, arg_max_past_pairs, arg_min_profit                          *)
(*                  the strategy called and the parameters of the call     *)
(*   spc, stack, ret, final_cash                                           *)
(*                  the strategy call: its position, the frames of the     *)
(*                  recursion (the innermost call last), the value being   *)
(*                  returned to the caller, and the cash returned at the   *)
(*                  end                                                    *)
(*   moves          the move list handed to validate_moves                 *)
(*   vpc, move_idx, current_date, daily_cash, daily_revenue,               *)
(*   validated_cash the position, locals and return value of validate_moves*)
(*   scenario, epc, year_pos, month_pos, scenario_cash, cash_per_year,     *)
(*   all_moves      the scenario run (trading_engine.py): which scenario,  *)
(*                  its position, the positions of its loops over the      *)
(*                  years and the months, and its locals cash,             *)
(*                  cash_per_year and all_moves                            *)
(***************************************************************************)
VARIABLES combined_data, initial_cash,
          strategy, arg_max_past_pairs, arg_min_profit,
          spc, stack, ret, final_cash,
          moves,
          vpc, move_idx, current_date, daily_cash, daily_revenue, validated_cash,
          scenario, epc, year_pos, month_pos, scenario_cash, cash_per_year,
          all_moves,
          call_year, call_last_year, call_result

inputs == << combined_data, initial_cash, strategy, arg_max_past_pairs,
             arg_min_profit >>
svars == << spc, stack, ret, final_cash >>
vlocals == << move_idx, current_date, daily_cash, daily_revenue >>
\* One call of _dynamic_max_pairs on its own: its two years and its result.
pairs_call == << call_year, call_last_year, call_result >>
engine == << scenario, epc, year_pos, month_pos, scenario_cash, cash_per_year,
            all_moves, pairs_call >>
vars == << inputs, svars, moves, vpc, vlocals, validated_cash, engine >>

\* _dynamic_max_pairs has not returned.
NoResult == << >>

\* No scenario runs: the strategy or the validator is called directly.
EngineIdle ==
    /\ scenario = "none"
    /\ epc = "idle"
    /\ year_pos = 0
    /\ month_pos = 0
    /\ scenario_cash = 0
    /\ cash_per_year = << >>
    /\ all_moves = << >>
    /\ call_year = 0
    /\ call_last_year = 0
    /\ call_result = NoResult

(***************************************************************************)
(* A DayBar (one row of the data) and a move tuple.                        *)
(***************************************************************************)
Bar(d, s, o, h, l, c, q) ==
    [Date |-> d, Stock |-> s, Open |-> o, High |-> h, Low |-> l, Close |-> c,
     Max_Quantity |-> q]

Move(date_str, action, stock, quantity_str) ==
    << date_str, action, stock, quantity_str >>

(***************************************************************************)
(* stock_dict[stock]: the rows of one stock, in the order of the data.     *)
(* A stock with no rows has no key (KeyError).                             *)
(***************************************************************************)
StockRows(data, stock) ==
    LET OfStock(b) == b.Stock = stock IN SelectSeq(data, OfStock)

(***************************************************************************)
(* validate_moves, src/src/validator.py.                                   *)
(***************************************************************************)
NoDate == 0
FAILURE == 0 - Scale

\* The locals before the loop (validator.py:34-36).
VInit == [current_date |-> NoDate, daily_cash |-> 0, daily_revenue |-> 0,
          failed |-> FALSE]

\* Variant of VDateStep: a move dated before current_date is let through.
VDateStepNoOrderCheck(st, move_date, cash0) ==
    IF st.current_date = NoDate
    THEN [st EXCEPT !.current_date = move_date,
                    !.daily_cash = cash0,
                    !.daily_revenue = 0]
    ELSE IF st.current_date < move_date
    THEN [st EXCEPT !.daily_cash = st.daily_cash + st.daily_revenue,
                    !.daily_revenue = 0,
                    !.current_date = move_date]
    ELSE st

\* Variant of VDateStep: a new day drops the revenue of the day before.
VDateStepDropsRevenue(st, move_date, cash0) ==
    IF st.current_date = NoDate
    THEN [st EXCEPT !.current_date = move_date,
                    !.daily_cash = cash0,
                    !.daily_revenue = 0]
    ELSE IF st.current_date < move_date
    THEN [st EXCEPT !.daily_revenue = 0,
                    !.current_date = move_date]
    ELSE IF st.current_date > move_date
    THEN [st EXCEPT !.failed = TRUE]
    ELSE st

\* The date transition of one iteration (validator.py:49-62).
VDateStep(st, move_date, cash0) ==
    IF st.current_date = NoDate
    THEN [st EXCEPT !.current_date = move_date,
                    !.daily_cash = cash0,
                    !.daily_revenue = 0]
    ELSE IF st.current_date < move_date
    THEN [st EXCEPT !.daily_cash = st.daily_cash + st.daily_revenue,
                    !.daily_revenue = 0,
                    !.current_date = move_date]
    ELSE IF st.current_date > move_date
    THEN [st EXCEPT !.failed = TRUE]
    ELSE st

\* Variant of VApply: a sale is credited to daily_cash at once.
VApplyInstantSettle(st, action, row, quantity) ==
    IF action = "buy-low"
    THEN LET cost == row.Low * BUY_COST_FACTOR * quantity
         IN  IF st.daily_cash < cost THEN [st EXCEPT !.failed = TRUE]
             ELSE [st EXCEPT !.daily_cash = st.daily_cash - cost]
    ELSE IF action = "buy-open"
    THEN LET cost == row.Open * BUY_COST_FACTOR * quantity
         IN  IF st.daily_cash < cost THEN [st EXCEPT !.failed = TRUE]
             ELSE [st EXCEPT !.daily_cash = st.daily_cash - cost]
    ELSE IF action = "sell-close"
    THEN [st EXCEPT !.daily_cash =
                      st.daily_cash + row.Close * SELL_REVENUE_FACTOR * quantity]
    ELSE IF action = "sell-high"
    THEN [st EXCEPT !.daily_cash =
                      st.daily_cash + row.High * SELL_REVENUE_FACTOR * quantity]
    ELSE st

\* Variant of VApply: an unsupported action fails the validation.
VApplyUnknownFatal(st, action, row, quantity) ==
    IF action = "buy-low"
    THEN LET cost == row.Low * BUY_COST_FACTOR * quantity
         IN  IF st.daily_cash < cost THEN [st EXCEPT !.failed = TRUE]
             ELSE [st EXCEPT !.daily_cash = st.daily_cash - cost]
    ELSE IF action = "buy-open"
    THEN LET cost == row.Open * BUY_COST_FACTOR * quantity
         IN  IF st.daily_cash < cost THEN [st EXCEPT !.failed = TRUE]
             ELSE [st EXCEPT !.daily_cash = st.daily_cash - cost]
    ELSE IF action = "sell-close"
    THEN [st EXCEPT !.daily_revenue =
                      st.daily_revenue + row.Close * SELL_REVENUE_FACTOR * quantity]
    ELSE IF action = "sell-high"
    THEN [st EXCEPT !.daily_revenue =
                      st.daily_revenue + row.High * SELL_REVENUE_FACTOR * quantity]
    ELSE [st EXCEPT !.failed = TRUE]

\* Variant of VApply: a sell is checked against the cash of the day as a buy
\* is.
VApplySellNeedsCash(st, action, row, quantity) ==
    IF action = "buy-low"
    THEN LET cost == row.Low * BUY_COST_FACTOR * quantity
         IN  IF st.daily_cash < cost THEN [st EXCEPT !.failed = TRUE]
             ELSE [st EXCEPT !.daily_cash = st.daily_cash - cost]
    ELSE IF action = "buy-open"
    THEN LET cost == row.Open * BUY_COST_FACTOR * quantity
         IN  IF st.daily_cash < cost THEN [st EXCEPT !.failed = TRUE]
             ELSE [st EXCEPT !.daily_cash = st.daily_cash - cost]
    ELSE IF action = "sell-close"
    THEN LET revenue == row.Close * SELL_REVENUE_FACTOR * quantity
         IN  IF st.daily_cash < revenue THEN [st EXCEPT !.failed = TRUE]
             ELSE [st EXCEPT !.daily_revenue = st.daily_revenue + revenue]
    ELSE IF action = "sell-high"
    THEN LET revenue == row.High * SELL_REVENUE_FACTOR * quantity
         IN  IF st.daily_cash < revenue THEN [st EXCEPT !.failed = TRUE]
             ELSE [st EXCEPT !.daily_revenue = st.daily_revenue + revenue]
    ELSE st

\* Variant of VApply: a buy is not checked against the cash of the day.
VApplyNoCashCheck(st, action, row, quantity) ==
    IF action = "buy-low"
    THEN [st EXCEPT !.daily_cash =
                      st.daily_cash - row.Low * BUY_COST_FACTOR * quantity]
    ELSE IF action = "buy-open"
    THEN [st EXCEPT !.daily_cash =
                      st.daily_cash - row.Open * BUY_COST_FACTOR * quantity]
    ELSE IF action = "sell-close"
    THEN [st EXCEPT !.daily_revenue =
                      st.daily_revenue + row.Close * SELL_REVENUE_FACTOR * quantity]
    ELSE IF action = "sell-high"
    THEN [st EXCEPT !.daily_revenue =
                      st.daily_revenue + row.High * SELL_REVENUE_FACTOR * quantity]
    ELSE st

\* The trade of one iteration (validator.py:83-102).
VApply(st, action, row, quantity) ==
    IF action = "buy-low"
    THEN LET cost == row.Low * BUY_COST_FACTOR * quantity
         IN  IF st.daily_cash < cost THEN [st EXCEPT !.failed = TRUE]
             ELSE [st EXCEPT !.daily_cash = st.daily_cash - cost]
    ELSE IF action = "buy-open"
    THEN LET cost == row.Open * BUY_COST_FACTOR * quantity
         IN  IF st.daily_cash < cost THEN [st EXCEPT !.failed = TRUE]
             ELSE [st EXCEPT !.daily_cash = st.daily_cash - cost]
    ELSE IF action = "sell-close"
    THEN [st EXCEPT !.daily_revenue =
                      st.daily_revenue + row.Close * SELL_REVENUE_FACTOR * quantity]
    ELSE IF action = "sell-high"
    THEN [st EXCEPT !.daily_revenue =
                      st.daily_revenue + row.High * SELL_REVENUE_FACTOR * quantity]
    ELSE st

\* One iteration of the loop over the moves (validator.py:39-102).
VStep(st, move, cash0, data) ==
    LET date_str == move[1]
        action == move[2]
        stock == move[3]
        quantity_str == move[4]
    IN  IF ~(CanParseDate(date_str) /\ CanParseInt(quantity_str))
        THEN [st EXCEPT !.failed = TRUE]
        ELSE
        LET move_date == ParseDate(date_str)
            quantity == ParseInt(quantity_str)
            dated == VDateStep(st, move_date, cash0)
            df_stock == StockRows(data, stock)
            OnDate(b) == b.Date = move_date
            rows == SelectSeq(df_stock, OnDate)
        IN  IF dated.failed THEN dated
            ELSE IF rows = << >> THEN [dated EXCEPT !.failed = TRUE]
            ELSE IF quantity > rows[1].Max_Quantity
            THEN [dated EXCEPT !.failed = TRUE]
            ELSE VApply(dated, action, rows[1], quantity)

\* The value returned once the loop has ended or has failed
\* (validator.py:47, 62, 71, 75, 80, 87, 93, 104-106).
VReturn(st) ==
    IF st.failed THEN FAILURE ELSE st.daily_cash + st.daily_revenue

RECURSIVE VLoop(_, _, _, _)
VLoop(st, ms, cash0, data) ==
    IF st.failed \/ ms = << >> THEN st
    ELSE VLoop(VStep(st, Head(ms), cash0, data), Tail(ms), cash0, data)

\* Variant of validate_moves: the empty list returns the initial cash.
validate_movesEmptyKeepsCash(cash0, ms, data) ==
    IF ms = << >> THEN cash0 ELSE VReturn(VLoop(VInit, ms, cash0, data))

validate_moves(cash0, ms, data) == VReturn(VLoop(VInit, ms, cash0, data))

(***************************************************************************)
(* np.inf and -np.inf next to finite numbers (max_past_pairs, min_profit). *)
(***************************************************************************)
Fin(n) == [inf |-> 0, n |-> n]
PosInf == [inf |-> 1, n |-> 0]
NegInf == [inf |-> 0 - 1, n |-> 0]

\* A profit threshold (min_profit) is counted in 1/Percent of a unit of
\* cash, so that cash / 100 is exact.
Percent == 100

\* Variant of dynamic_minimum_profit: the lower bound is compared with <= .
dynamic_minimum_profitLowOpen(c) ==
    IF c <= 1000 * Scale THEN NegInf
    ELSE IF c <= 10000000 * Scale THEN Fin(c)
    ELSE Fin(100000 * Scale * Percent)

\* dynamic_minimum_profit(cash), config.py:66-86: -inf below 1e3, cash / 100
\* up to 1e7, 1e5 above.
dynamic_minimum_profit(c) ==
    IF c < 1000 * Scale THEN NegInf
    ELSE IF c <= 10000000 * Scale THEN Fin(c)
    ELSE Fin(100000 * Scale * Percent)

\* x - k
XMinus(x, k) == IF x.inf = 0 THEN Fin(x.n - k) ELSE x
\* k >= x, for a finite k
XGeq(k, x) == IF x.inf = 0 THEN k >= x.n ELSE x.inf < 0

(***************************************************************************)
(* The selection step shared by both strategies                            *)
(* (strategies.py:30-46 and 106-122).                                      *)
(***************************************************************************)
\* int(): truncation towards zero of a / b, b > 0.
IntTrunc(a, b) == IF a >= 0 THEN a \div b ELSE 0 - ((0 - a) \div b)

\* df[(Open * BUY_COST_FACTOR <= cash) | (Low * BUY_COST_FACTOR <= cash)]
Affordable(df, cash) ==
    LET InReach(b) == \/ b.Open * BUY_COST_FACTOR <= cash
                      \/ b.Low * BUY_COST_FACTOR <= cash
    IN  SelectSeq(df, InReach)

\* Variant of quantity_open: the shares the cash affords are not counted.
quantity_openByVolume(b, cash) == b.Max_Quantity

quantity_open(b, cash) == Min(b.Max_Quantity, cash \div (b.Open * BUY_COST_FACTOR))
profit_open(b, cash) ==
    quantity_open(b, cash) * (b.High * SELL_REVENUE_FACTOR - b.Open * BUY_COST_FACTOR)

quantity_low(b, cash) == Min(b.Max_Quantity, cash \div (b.Low * BUY_COST_FACTOR))
profit_low(b, cash) ==
    quantity_low(b, cash) * (b.Close * SELL_REVENUE_FACTOR - b.Low * BUY_COST_FACTOR)

max_profit_per_trade(b, cash) == Max(profit_open(b, cash), profit_low(b, cash))

\* Variant of best_profit_idx: the last position of the maximum.
best_profit_idxLast(df, cash) ==
    LET profit == [i \in 1..Len(df) |-> max_profit_per_trade(df[i], cash)]
    IN  CHOOSE i \in 1..Len(df) :
            /\ \A j \in 1..Len(df) : profit[j] <= profit[i]
            /\ \A j \in (i + 1)..Len(df) : profit[j] < profit[i]

\* np.argmax: the first position of the maximum.
best_profit_idx(df, cash) ==
    LET profit == [i \in 1..Len(df) |-> max_profit_per_trade(df[i], cash)]
    IN  CHOOSE i \in 1..Len(df) :
            /\ \A j \in 1..Len(df) : profit[j] <= profit[i]
            /\ \A j \in 1..(i - 1) : profit[j] < profit[i]

\* Variant of NotProfitable: a best profit of zero is traded.
NotProfitableStrict(best_profit) == best_profit < 0

\* if best_profit <= 0: return (strategies.py:49, 125)
NotProfitable(best_profit) == best_profit <= 0

\* Variant of ExecQuantity: the cap by Max_Quantity is missing.
ExecQuantityUncapped(max_quantity, cash, unit_cost) == IntTrunc(cash, unit_cost)

\* int(min(row['Max_Quantity'], cash / unit_cost)): the minimum of an integer
\* and a quotient, then truncated (strategies.py:58, 65, 139, 158).
ExecQuantity(max_quantity, cash, unit_cost) ==
    IF max_quantity * unit_cost <= cash THEN max_quantity
    ELSE IntTrunc(cash, unit_cost)

\* Variant of ChosenTrade: the buy-low branch takes its revenue from High.
ChosenTradeWrongRevenue(row, cash) ==
    IF profit_open(row, cash) > profit_low(row, cash)
    THEN LET quantity ==
                 ExecQuantity(row.Max_Quantity, cash, row.Open * BUY_COST_FACTOR)
         IN  [buy |-> "buy-open", sell |-> "sell-high", quantity |-> quantity,
              cost |-> quantity * row.Open * BUY_COST_FACTOR,
              revenue |-> quantity * row.High * SELL_REVENUE_FACTOR]
    ELSE LET quantity ==
                 ExecQuantity(row.Max_Quantity, cash, row.Low * BUY_COST_FACTOR)
         IN  [buy |-> "buy-low", sell |-> "sell-close", quantity |-> quantity,
              cost |-> quantity * row.Low * BUY_COST_FACTOR,
              revenue |-> quantity * row.High * SELL_REVENUE_FACTOR]

\* The trade executed on the selected row (strategies.py:57-70, 138-175):
\* the variant, the quantity, its cost and its revenue.
ChosenTrade(row, cash) ==
    IF profit_open(row, cash) > profit_low(row, cash)
    THEN LET quantity ==
                 ExecQuantity(row.Max_Quantity, cash, row.Open * BUY_COST_FACTOR)
         IN  [buy |-> "buy-open", sell |-> "sell-high", quantity |-> quantity,
              cost |-> quantity * row.Open * BUY_COST_FACTOR,
              revenue |-> quantity * row.High * SELL_REVENUE_FACTOR]
    ELSE LET quantity ==
                 ExecQuantity(row.Max_Quantity, cash, row.Low * BUY_COST_FACTOR)
         IN  [buy |-> "buy-low", sell |-> "sell-close", quantity |-> quantity,
              cost |-> quantity * row.Low * BUY_COST_FACTOR,
              revenue |-> quantity * row.Close * SELL_REVENUE_FACTOR]

\* Variant of TradeMoves: the sell leg is appended before the buy leg.
TradeMovesSellFirst(row, trade) ==
    << Move(DateToStr(row.Date), trade.sell, row.Stock, IntToStr(trade.quantity)),
       Move(DateToStr(row.Date), trade.buy, row.Stock, IntToStr(trade.quantity)) >>

\* The two tuples appended for a trade (strategies.py:62-63, 69-70, 155-156,
\* 174-175).
TradeMoves(row, trade) ==
    << Move(DateToStr(row.Date), trade.buy, row.Stock, IntToStr(trade.quantity)),
       Move(DateToStr(row.Date), trade.sell, row.Stock, IntToStr(trade.quantity)) >>

\* df[df['Date'] > row['Date']]
\* Variant of After: the rows of the date of the trade are kept.
AfterOrOn(df, row) == LET Later(b) == b.Date >= row.Date IN SelectSeq(df, Later)

After(df, row) == LET Later(b) == b.Date > row.Date IN SelectSeq(df, Later)

\* Variant of UpToWithout: the selected row is not dropped.
UpToWithRow(df, row, idx) ==
    LET Kept(b) == b.Date <= row.Date IN SelectSeq(df, Kept)

\* df[df['Date'] <= row['Date']].drop(index=best_profit_idx)
UpToWithout(df, row, idx) ==
    LET Kept(b) == b.Date <= row.Date /\ b # df[idx] IN SelectSeq(df, Kept)

(***************************************************************************)
(* A frame of the recursion: the arguments of the call and, while the call *)
(* waits for its corrective sub-search (pc = "sub"), the selected row and  *)
(* trade.                                                                  *)
(***************************************************************************)
NoRow == Bar(NoDate, "", 0, 0, 0, 0, 0)
NoTrade == [buy |-> "", sell |-> "", quantity |-> 0, cost |-> 0, revenue |-> 0]
NoRet == [present |-> FALSE, cash |-> 0, moves |-> << >>]

Frame(df, cash, mv, past, max_past_pairs, min_profit) ==
    [df |-> df, cash |-> cash, moves |-> mv, past |-> past,
     max_past_pairs |-> max_past_pairs, min_profit |-> min_profit,
     pc |-> "call", row |-> NoRow, trade |-> NoTrade]

Top == stack[Len(stack)]
Callers == SubSeq(stack, 1, Len(stack) - 1)
Running(name) == spc = "running" /\ strategy = name /\ ~ret.present /\ Top.pc = "call"

\* return cash, moves
ReturnFromTop(cash, mv) ==
    /\ stack' = Callers
    /\ ret' = [present |-> TRUE, cash |-> cash, moves |-> mv]

(***************************************************************************)
(* greedy_trading_recursive, strategies.py:11-76.                          *)
(***************************************************************************)
\* strategies.py:33-34
GreedyNoCandidates ==
    /\ Running("simple")
    /\ Affordable(Top.df, Top.cash) = << >>
    /\ ReturnFromTop(Top.cash, Top.moves)
    /\ UNCHANGED << inputs, engine, spc, final_cash, moves, vpc, vlocals, validated_cash >>

\* strategies.py:49-50
GreedyNoProfit ==
    /\ Running("simple")
    /\ LET df == Affordable(Top.df, Top.cash)
       IN  /\ df # << >>
           /\ NotProfitable(max_profit_per_trade(df[best_profit_idx(df, Top.cash)], Top.cash))
    /\ ReturnFromTop(Top.cash, Top.moves)
    /\ UNCHANGED << inputs, engine, spc, final_cash, moves, vpc, vlocals, validated_cash >>

\* strategies.py:52-76: execute the best move and call again on the later days.
GreedyTrade ==
    /\ Running("simple")
    /\ LET df == Affordable(Top.df, Top.cash)
       IN  /\ df # << >>
           /\ LET row == df[best_profit_idx(df, Top.cash)]
                  trade == ChosenTrade(row, Top.cash)
              IN  /\ ~NotProfitable(max_profit_per_trade(row, Top.cash))
                  /\ stack' = Callers \o
                       << Frame(After(df, row),
                                Top.cash - trade.cost + trade.revenue,
                                Top.moves \o TradeMoves(row, trade),
                                FALSE, PosInf, NegInf) >>
    /\ UNCHANGED << inputs, engine, spc, ret, final_cash, moves, vpc, vlocals, validated_cash >>

\* The function as a whole: the cash and the moves it returns.
RECURSIVE greedy_trading_recursive(_, _, _)
greedy_trading_recursive(data, cash, mv) ==
    LET df == Affordable(data, cash)
    IN  IF df = << >> THEN [cash |-> cash, moves |-> mv]
        ELSE LET row == df[best_profit_idx(df, cash)]
                 trade == ChosenTrade(row, cash)
             IN  IF NotProfitable(max_profit_per_trade(row, cash))
                 THEN [cash |-> cash, moves |-> mv]
                 ELSE greedy_trading_recursive(
                          After(df, row), cash - trade.cost + trade.revenue,
                          mv \o TradeMoves(row, trade))

(***************************************************************************)
(* extra_greedy_trading_recursive, strategies.py:79-195.                   *)
(***************************************************************************)
\* Variant of BudgetExhausted: the budget is never checked.
BudgetExhaustedNever(f) == FALSE

\* Variant of BudgetExhausted: the budget is compared with == .
BudgetExhaustedOnEqual(f) ==
    f.past /\ f.max_past_pairs = Fin(Len(f.moves) \div 2)

\* if past and (len(moves) // 2 >= max_past_pairs) (strategies.py:103)
BudgetExhausted(f) == f.past /\ XGeq(Len(f.moves) \div 2, f.max_past_pairs)

\* Variant of SubSearch: the cost of the selected trade is not set aside.
SubSearchFullCash(f, df, idx, trade) ==
    Frame(UpToWithout(df, df[idx], idx), f.cash, << >>, TRUE,
          XMinus(f.max_past_pairs, 1), f.min_profit)

\* The corrective call made for the selected row (strategies.py:144-150,
\* 163-169): the rows up to its date without the row itself, cash - cost, no
\* moves, past = True, max_past_pairs - 1.
SubSearch(f, df, idx, trade) ==
    Frame(UpToWithout(df, df[idx], idx), f.cash - trade.cost, << >>, TRUE,
          XMinus(f.max_past_pairs, 1), f.min_profit)

\* Variant of Admitted: the threshold is applied to forward calls as well.
AdmittedInEveryMode(f, best_profit) == XGeq(best_profit * Percent, f.min_profit)

\* if (not past) or (best_profit >= min_profit) (strategies.py:132)
Admitted(f, best_profit) ==
    (~f.past) \/ XGeq(best_profit * Percent, f.min_profit)

\* strategies.py:103-104
ExtraBudgetExhausted ==
    /\ Running("extra")
    /\ BudgetExhausted(Top)
    /\ ReturnFromTop(Top.cash, Top.moves)
    /\ UNCHANGED << inputs, engine, spc, final_cash, moves, vpc, vlocals, validated_cash >>

\* strategies.py:109-110
ExtraNoCandidates ==
    /\ Running("extra")
    /\ ~BudgetExhausted(Top)
    /\ Affordable(Top.df, Top.cash) = << >>
    /\ ReturnFromTop(Top.cash, Top.moves)
    /\ UNCHANGED << inputs, engine, spc, final_cash, moves, vpc, vlocals, validated_cash >>

\* strategies.py:125-126
ExtraNoProfit ==
    /\ Running("extra")
    /\ ~BudgetExhausted(Top)
    /\ LET df == Affordable(Top.df, Top.cash)
       IN  /\ df # << >>
           /\ NotProfitable(max_profit_per_trade(df[best_profit_idx(df, Top.cash)], Top.cash))
    /\ ReturnFromTop(Top.cash, Top.moves)
    /\ UNCHANGED << inputs, engine, spc, final_cash, moves, vpc, vlocals, validated_cash >>

\* strategies.py:132, 176-179: a corrective call whose best move is below
\* min_profit.
ExtraBelowMinProfit ==
    /\ Running("extra")
    /\ ~BudgetExhausted(Top)
    /\ LET df == Affordable(Top.df, Top.cash)
       IN  /\ df # << >>
           /\ LET best_profit ==
                      max_profit_per_trade(df[best_profit_idx(df, Top.cash)], Top.cash)
              IN  /\ ~NotProfitable(best_profit)
                  /\ ~Admitted(Top, best_profit)
    /\ ReturnFromTop(Top.cash, Top.moves)
    /\ UNCHANGED << inputs, engine, spc, final_cash, moves, vpc, vlocals, validated_cash >>

\* strategies.py:132-150, 157-169: select the best move and call the
\* corrective sub-search on the rows up to its date, with cash - cost.
ExtraSelect ==
    /\ Running("extra")
    /\ ~BudgetExhausted(Top)
    /\ LET df == Affordable(Top.df, Top.cash)
       IN  /\ df # << >>
           /\ LET idx == best_profit_idx(df, Top.cash)
                  row == df[idx]
                  best_profit == max_profit_per_trade(row, Top.cash)
                  trade == ChosenTrade(row, Top.cash)
              IN  /\ ~NotProfitable(best_profit)
                  /\ Admitted(Top, best_profit)
                  /\ stack' = Callers \o
                       << [Top EXCEPT !.df = df, !.pc = "sub", !.row = row,
                                      !.trade = trade],
                          SubSearch(Top, df, idx, trade) >>
    /\ UNCHANGED << inputs, engine, spc, ret, final_cash, moves, vpc, vlocals, validated_cash >>

\* Variant of ExtraResume: the selected pair is appended before the moves of
\* the sub-search.
ExtraResumePairFirst ==
    /\ spc = "running" /\ strategy = "extra"
    /\ ret.present
    /\ stack # << >>
    /\ Top.pc = "sub"
    /\ LET cash == ret.cash + Top.trade.revenue
           mv == (Top.moves \o TradeMoves(Top.row, Top.trade)) \o ret.moves
       IN  stack' = Callers \o
             << Frame(After(Top.df, Top.row), cash, mv, Top.past,
                      IF Top.past
                      THEN XMinus(Top.max_past_pairs, Len(mv) \div 2)
                      ELSE Top.max_past_pairs,
                      Top.min_profit) >>
    /\ ret' = NoRet
    /\ UNCHANGED << inputs, engine, spc, final_cash, moves, vpc, vlocals, validated_cash >>

\* strategies.py:152-156, 171-175, 181-195: the sub-search has returned; add
\* the revenue, append its moves and the selected pair, and call again on the
\* later days.
ExtraResume ==
    /\ spc = "running" /\ strategy = "extra"
    /\ ret.present
    /\ stack # << >>
    /\ Top.pc = "sub"
    /\ LET cash == ret.cash + Top.trade.revenue
           mv == (Top.moves \o ret.moves) \o TradeMoves(Top.row, Top.trade)
       IN  stack' = Callers \o
             << Frame(After(Top.df, Top.row), cash, mv, Top.past,
                      IF Top.past
                      THEN XMinus(Top.max_past_pairs, Len(mv) \div 2)
                      ELSE Top.max_past_pairs,
                      Top.min_profit) >>
    /\ ret' = NoRet
    /\ UNCHANGED << inputs, engine, spc, final_cash, moves, vpc, vlocals, validated_cash >>

(***************************************************************************)
(* The caller of the strategies and of the validator                       *)
(* (main.py:51-66, 86-90; trading_engine.py:48, 124-131).                  *)
(***************************************************************************)
\* final_cash, moves = <strategy>(...)
StrategyReturn ==
    /\ spc = "running"
    /\ ret.present
    /\ stack = << >>
    /\ final_cash' = ret.cash
    /\ moves' = ret.moves
    /\ ret' = NoRet
    /\ spc' = "returned"
    /\ UNCHANGED << inputs, engine, stack, vpc, vlocals, validated_cash >>

\* validated_cash = validate_moves(initial_cash, moves, stock_dict)
MainValidate ==
    /\ spc = "returned"
    /\ vpc = "idle"
    /\ validated_cash' = validate_moves(initial_cash, moves, combined_data)
    /\ vpc' = "returned"
    /\ UNCHANGED << inputs, engine, svars, moves, vlocals >>

(***************************************************************************)
(* The inputs of the validator runs.                                       *)
(***************************************************************************)
ValidatorData ==
    << Bar(1, "X", 1, 2, 1, 2, 2),
       Bar(2, "X", 2, 3, 1, 2, 1) >>

ValidatorDates == {b.Date : b \in SeqRange(ValidatorData)}

ValidatorCash == {150, 303}

\* Well-formed moves on the bars of the data, and one move for each way a
\* move can be malformed or refer to no bar.
MoveDomain ==
    {Move(DateToStr(d), a, "X", IntToStr(q)) :
        d \in ValidatorDates, a \in {"buy-open", "sell-high"}, q \in 1..2}
    \cup {Move(DateToStr(d), a, "X", IntToStr(1)) :
        d \in ValidatorDates, a \in {"buy-low", "sell-close", "hold"}}
    \cup {Move("2020-13-01", "sell-high", "X", IntToStr(1)),
          Move(DateToStr(1), "sell-high", "X", << "1", ".", "5" >>),
          Move(DateToStr(1), "sell-high", "Z", IntToStr(1)),
          Move(DateToStr(Len(ValidatorData) + 1), "sell-high", "X", IntToStr(1))}

(***************************************************************************)
(* validate_moves as a state machine: one step per iteration of its loop.  *)
(***************************************************************************)
VLocals == [current_date |-> current_date, daily_cash |-> daily_cash,
            daily_revenue |-> daily_revenue, failed |-> FALSE]

Init ==
    /\ combined_data = ValidatorData
    /\ initial_cash \in ValidatorCash
    /\ strategy = "none"
    /\ arg_max_past_pairs = PosInf
    /\ arg_min_profit = NegInf
    /\ spc = "idle"
    /\ stack = << >>
    /\ ret = NoRet
    /\ final_cash = 0
    /\ \E n \in 0..MaxMoves : moves \in [1..n -> MoveDomain]
    /\ vpc = "loop"
    /\ move_idx = 0
    /\ current_date = VInit.current_date
    /\ daily_cash = VInit.daily_cash
    /\ daily_revenue = VInit.daily_revenue
    /\ validated_cash = 0
    /\ EngineIdle

\* An iteration that passes every check.
ValidateMove ==
    /\ vpc = "loop"
    /\ move_idx < Len(moves)
    /\ LET st == VStep(VLocals, moves[move_idx + 1], initial_cash, combined_data)
       IN  /\ ~st.failed
           /\ move_idx' = move_idx + 1
           /\ current_date' = st.current_date
           /\ daily_cash' = st.daily_cash
           /\ daily_revenue' = st.daily_revenue
    /\ UNCHANGED << inputs, engine, svars, moves, vpc, validated_cash >>

\* Variant of ValidateFail: the failing move is skipped and the loop goes on.
ValidateFailSkips ==
    /\ vpc = "loop"
    /\ move_idx < Len(moves)
    /\ VStep(VLocals, moves[move_idx + 1], initial_cash, combined_data).failed
    /\ move_idx' = move_idx + 1
    /\ UNCHANGED << inputs, engine, svars, moves, vpc, current_date, daily_cash,
                    daily_revenue, validated_cash >>

\* An iteration that fails a check: return -1.0.
ValidateFail ==
    /\ vpc = "loop"
    /\ move_idx < Len(moves)
    /\ LET st == VStep(VLocals, moves[move_idx + 1], initial_cash, combined_data)
       IN  /\ st.failed
           /\ current_date' = st.current_date
           /\ daily_cash' = st.daily_cash
           /\ daily_revenue' = st.daily_revenue
           /\ validated_cash' = VReturn(st)
    /\ vpc' = "returned"
    /\ UNCHANGED << inputs, engine, svars, moves, move_idx >>

\* The loop has ended: return daily_cash + daily_revenue.
ValidateReturn ==
    /\ vpc = "loop"
    /\ move_idx = Len(moves)
    /\ validated_cash' = VReturn(VLocals)
    /\ vpc' = "returned"
    /\ UNCHANGED << inputs, engine, svars, moves, vlocals >>

Next == ValidateMove \/ ValidateFail \/ ValidateReturn

Spec == Init /\ [][Next]_vars

(***************************************************************************)
(* The validator on quantities and cash of either sign: int() accepts a    *)
(* signed quantity string and initial_cash is any float.                   *)
(***************************************************************************)
\* -1.00, 0 and 3.03
SignedCash == {0 - Scale, 0, 303}

SignedMoves ==
    {Move(DateToStr(d), a, "X", IntToStr(q)) :
        d \in ValidatorDates, a \in {"buy-open", "sell-high"}, q \in (0 - 1)..1}
    \cup {Move(DateToStr(1), "hold", "X", IntToStr(1))}

InitSigned ==
    /\ combined_data = ValidatorData
    /\ initial_cash \in SignedCash
    /\ strategy = "none"
    /\ arg_max_past_pairs = PosInf
    /\ arg_min_profit = NegInf
    /\ spc = "idle"
    /\ stack = << >>
    /\ ret = NoRet
    /\ final_cash = 0
    /\ \E n \in 0..MaxMoves : moves \in [1..n -> SignedMoves]
    /\ vpc = "loop"
    /\ move_idx = 0
    /\ current_date = VInit.current_date
    /\ daily_cash = VInit.daily_cash
    /\ daily_revenue = VInit.daily_revenue
    /\ validated_cash = 0
    /\ EngineIdle

NextSigned == ValidateMove \/ ValidateFail \/ ValidateReturn

SpecSigned == InitSigned /\ [][NextSigned]_vars

(***************************************************************************)
(* The strategy runs: one call of a strategy on drawn bars and cash, then  *)
(* the replay of its moves by the validator.                               *)
(***************************************************************************)
Stocks == << "X", "Y" >>

\* open, high, low, close, max_quantity
Shapes ==
    { << 1, 2, 1, 1, 2 >>,
      << 2, 4, 1, 2, 2 >>,
      << 3, 3, 1, 1, 1 >> }
Absent == << >>

\* The slots (date, stock) in the order of the sorted data.
Slots == [k \in 1..(MaxDate * Len(Stocks)) |->
             [Date |-> ((k - 1) \div Len(Stocks)) + 1,
              Stock |-> Stocks[((k - 1) % Len(Stocks)) + 1]]]

\* The bars of the slots from k on, f giving the shape of each slot.
RECURSIVE DataOf(_, _, _)
DataOf(slots, f, k) ==
    IF k > Len(slots) THEN << >>
    ELSE (IF f[k] = Absent THEN << >>
          ELSE << Bar(slots[k].Date, slots[k].Stock,
                      f[k][1], f[k][2], f[k][3], f[k][4], f[k][5]) >>)
         \o DataOf(slots, f, k + 1)

\* Every date has a bar of the first stock; the bar of another stock may be
\* missing.
StrategyData ==
    {DataOf(Slots, f, 1) :
        f \in {g \in [1..Len(Slots) -> Shapes \cup {Absent}] :
                  \A k \in 1..Len(Slots) :
                      Slots[k].Stock = Stocks[1] => g[k] # Absent}}

StrategyCash == {210, 310}

\* One bar of stock X on 2020-01-01, open 10, high 12, low 9, close 11,
\* Max_Quantity 100, and a cash of 1000.
EndToEndData == << Bar(1, "X", 10, 12, 9, 11, 100) >>
EndToEndCash == 1000 * Scale
\* A first bar of any shape, then a bar whose two buy prices (3.03) are out
\* of reach of the smaller cash and within reach once a trade has paid.
CostlyLaterData ==
    {<< Bar(1, Stocks[1], f[1], f[2], f[3], f[4], f[5]),
        Bar(2, Stocks[1], 3, 4, 3, 3, 1) >> : f \in Shapes}

\* min_profit: none, or a profit of 1.
MinProfits == {NegInf, Fin(Scale * Percent)}
\* max_past_pairs: no corrective pair, the largest finite budget, unbounded.
PairBudgets == {Fin(0), Fin(MaxPastPairs), PosInf}

InitStrategy ==
    /\ \/ /\ combined_data \in StrategyData
          /\ initial_cash \in StrategyCash
       \/ /\ combined_data = EndToEndData
          /\ initial_cash = EndToEndCash
       \/ /\ combined_data \in CostlyLaterData
          /\ initial_cash \in StrategyCash
    /\ \/ /\ strategy = "simple"
          /\ arg_max_past_pairs = PosInf
          /\ arg_min_profit = NegInf
       \/ /\ strategy = "extra"
          /\ arg_max_past_pairs \in PairBudgets
          /\ arg_min_profit \in MinProfits
    /\ spc = "running"
    /\ stack = << Frame(combined_data, initial_cash, << >>, FALSE,
                        arg_max_past_pairs, arg_min_profit) >>
    /\ ret = NoRet
    /\ final_cash = 0
    /\ moves = << >>
    /\ vpc = "idle"
    /\ move_idx = 0
    /\ current_date = VInit.current_date
    /\ daily_cash = VInit.daily_cash
    /\ daily_revenue = VInit.daily_revenue
    /\ validated_cash = 0
    /\ EngineIdle

NextStrategy ==
    \/ GreedyNoCandidates \/ GreedyNoProfit \/ GreedyTrade
    \/ ExtraBudgetExhausted \/ ExtraNoCandidates \/ ExtraNoProfit
    \/ ExtraBelowMinProfit \/ ExtraSelect \/ ExtraResume
    \/ StrategyReturn \/ MainValidate

SpecStrategy == InitStrategy /\ [][NextStrategy]_vars

\* A step of the run is possible: a call is running or has returned to main,
\* or main has still to validate. This is ENABLED <<NextStrategy>>_vars.
InProgress == spc = "running" \/ (spc = "returned" /\ vpc = "idle")

\* The program is sequential and never waits: whenever a step is possible,
\* one is taken. The condition is weak fairness of NextStrategy, with its
\* enabling condition written out.
SpecStrategyFair ==
    SpecStrategy /\ ([]<>(~InProgress) \/ []<><<NextStrategy>>_vars)

(***************************************************************************)
(* The scenarios, src/src/trading_engine.py: run_small_scenario calls the  *)
(* simple strategy once per year, run_large_scenario the lookback strategy *)
(* once per month; the cash is carried over, the moves are concatenated.   *)
(***************************************************************************)
\* sorted(...): the elements of a set of numbers in increasing order.
RECURSIVE SortedSeq(_)
SortedSeq(S) ==
    IF S = {} THEN << >>
    ELSE LET least == CHOOSE x \in S : \A y \in S : x <= y
         IN  << least >> \o SortedSeq(S \ {least})

\* years = sorted(df['Year'].unique()); months = sorted(df['Month'].unique())
years == SortedSeq({YearOf(b.Date) : b \in SeqRange(combined_data)})
months == SortedSeq({MonthOf(b.Date) : b \in SeqRange(combined_data)})
max_year == years[Len(years)]

\* df[df['Year'] == year]
yearly_data(year) ==
    LET InYear(b) == YearOf(b.Date) = year IN SelectSeq(combined_data, InYear)

\* df[(df['Year'] == year) & (df['Month'] == month)]
monthly_data(year, month) ==
    LET InMonth(b) == YearOf(b.Date) = year /\ MonthOf(b.Date) = month
    IN  SelectSeq(combined_data, InMonth)

(***************************************************************************)
(* The double-precision arithmetic of _dynamic_max_pairs. A positive       *)
(* double is its 53 significant bits, the first of them 1, and the         *)
(* exponent e of that first bit: bit i weighs 2^(e - i + 1). Every         *)
(* operation computes the exact result as a longer run of bits and rounds  *)
(* it to the nearest double, ties to the even one.                         *)
(***************************************************************************)
MantissaBits == 53

Double(bits, e) == [bits |-> bits, e |-> e]

\* The bits of a natural number, the highest first; none for 0.
RECURSIVE IntBits(_)
IntBits(n) == IF n = 0 THEN << >> ELSE Append(IntBits(n \div 2), n % 2)

RECURSIVE BitsValue(_)
BitsValue(bits) ==
    IF bits = << >> THEN 0
    ELSE 2 * BitsValue(SubSeq(bits, 1, Len(bits) - 1)) + bits[Len(bits)]

\* The next count bits of rem / d (rem < d), then one more bit that is 1
\* when something is left below them.
RECURSIVE FracBits(_, _, _)
FracBits(rem, d, count) ==
    IF count = 0 THEN << IF rem = 0 THEN 0 ELSE 1 >>
    ELSE IF 2 * rem >= d
         THEN << 1 >> \o FracBits(2 * rem - d, d, count - 1)
         ELSE << 0 >> \o FracBits(2 * rem, d, count - 1)

\* The zero bits of rem / d before its first 1 (0 < rem < d).
RECURSIVE LeadingZeros(_, _)
LeadingZeros(rem, d) ==
    IF 2 * rem >= d THEN 0 ELSE 1 + LeadingZeros(2 * rem, d)

\* The bits plus one unit of the last place, and the carry out of the first.
RECURSIVE Increment(_)
Increment(bits) ==
    IF bits = << >> THEN [bits |-> << >>, carry |-> 1]
    ELSE LET n == Len(bits)
         IN  IF bits[n] = 0 THEN [bits |-> [bits EXCEPT ![n] = 1], carry |-> 0]
             ELSE LET up == Increment(SubSeq(bits, 1, n - 1))
                  IN  [bits |-> Append(up.bits, 0), carry |-> up.carry]

\* Round to nearest, ties to even: the exact bits (the first is 1 and weighs
\* 2^e) become a double.
RoundBits(bits, e) ==
    IF Len(bits) <= MantissaBits
    THEN Double(bits \o [i \in 1..(MantissaBits - Len(bits)) |-> 0], e)
    ELSE LET head == SubSeq(bits, 1, MantissaBits)
             sticky == \E i \in (MantissaBits + 2)..Len(bits) : bits[i] = 1
         IN  IF bits[MantissaBits + 1] = 1 /\ (sticky \/ head[MantissaBits] = 1)
             THEN LET up == Increment(head)
                  IN  IF up.carry = 1
                      THEN Double(<< 1 >> \o SubSeq(up.bits, 1, MantissaBits - 1),
                                  e + 1)
                      ELSE Double(up.bits, e)
             ELSE Double(head, e)

\* n / d for two positive integers.
FloatDiv(n, d) ==
    LET whole == IntBits(n \div d)
        rem == n % d
    IN  IF whole # << >>
        THEN RoundBits(whole \o FracBits(rem, d, MantissaBits + 1 - Len(whole)),
                       Len(whole) - 1)
        ELSE LET zeros == LeadingZeros(rem, d)
             IN  RoundBits(FracBits(rem * (2 ^ zeros), d, MantissaBits + 1),
                           0 - (zeros + 1))

\* 1 + x
FloatAddOne(x) ==
    IF x.e < 0
    THEN RoundBits((<< 1 >> \o [i \in 1..(0 - x.e - 1) |-> 0]) \o x.bits, 0)
    ELSE LET up == Increment(SubSeq(x.bits, 1, x.e + 1))
             low == SubSeq(x.bits, x.e + 2, Len(x.bits))
         IN  IF up.carry = 1
             THEN RoundBits((<< 1 >> \o up.bits) \o low, x.e + 1)
             ELSE RoundBits(up.bits \o low, x.e)

\* The exact bits of bits * m + carry, for an integer m >= 1: the last bit
\* first, the carry going up.
RECURSIVE TimesBits(_, _, _)
TimesBits(bits, m, carry) ==
    IF bits = << >> THEN IntBits(carry)
    ELSE LET n == Len(bits)
             t == bits[n] * m + carry
         IN  IF t % 2 = 0
             THEN Append(TimesBits(SubSeq(bits, 1, n - 1), m, t \div 2), 0)
             ELSE Append(TimesBits(SubSeq(bits, 1, n - 1), m, t \div 2), 1)

\* m * x for an integer m >= 1.
FloatTimesInt(m, x) ==
    LET product == TimesBits(x.bits, m, 0)
    IN  RoundBits(product, x.e + Len(product) - Len(x.bits))

\* int(x): the bits that weigh 1 or more.
FloatToInt(x) == IF x.e < 0 THEN 0 ELSE BitsValue(SubSeq(x.bits, 1, x.e + 1))

\* _dynamic_max_pairs (trading_engine.py:58-80):
\* int(m * (1 + 20000 / (r + 1)**2)) and int(m * (1 + 15000 / (r + 1))), in
\* doubles.
dynamic_max_pairs(initial_max_pairs, current_year, last_year) ==
    IF initial_max_pairs = PosInf THEN PosInf
    ELSE LET remaining_years == last_year - current_year
             quotient ==
                 IF remaining_years >= 40
                 THEN FloatDiv(20000, (remaining_years + 1) * (remaining_years + 1))
                 ELSE FloatDiv(15000, remaining_years + 1)
         IN  IF initial_max_pairs.n = 0 THEN Fin(0)
             ELSE Fin(FloatToInt(FloatTimesInt(initial_max_pairs.n,
                                               FloatAddOne(quotient))))

\* The call of _dynamic_max_pairs on its own.
PairsCall ==
    /\ call_result = NoResult
    /\ call_result' = dynamic_max_pairs(arg_max_past_pairs, call_year, call_last_year)
    /\ UNCHANGED << inputs, svars, moves, vpc, vlocals, validated_cash, scenario,
                    epc, year_pos, month_pos, scenario_cash, cash_per_year,
                    all_moves, call_year, call_last_year >>

\* Every base from 0 to MaxBase and the unbounded one, every year from
\* MaxRemaining years before the last one up to the last one.
InitPairs ==
    /\ arg_max_past_pairs \in {Fin(b) : b \in 0..MaxBase} \cup {PosInf}
    /\ call_last_year = Calendar[Len(Calendar)].year
    /\ call_year \in {call_last_year - r : r \in 0..MaxRemaining}
    /\ call_result = NoResult
    /\ combined_data = << >>
    /\ initial_cash = 0
    /\ strategy = "none"
    /\ arg_min_profit = NegInf
    /\ spc = "idle"
    /\ stack = << >>
    /\ ret = NoRet
    /\ final_cash = 0
    /\ moves = << >>
    /\ vpc = "idle"
    /\ move_idx = 0
    /\ current_date = VInit.current_date
    /\ daily_cash = VInit.daily_cash
    /\ daily_revenue = VInit.daily_revenue
    /\ validated_cash = 0
    /\ scenario = "none"
    /\ epc = "idle"
    /\ year_pos = 0
    /\ month_pos = 0
    /\ scenario_cash = 0
    /\ cash_per_year = << >>
    /\ all_moves = << >>

NextPairs == PairsCall

SpecPairs == InitPairs /\ [][NextPairs]_vars

\* cash_per_year[year] = value: a dict, as the sequence of its entries in
\* insertion order.
DictSet(dict, key, value) ==
    IF \E i \in 1..Len(dict) : dict[i].key = key
    THEN [i \in 1..Len(dict) |->
             IF dict[i].key = key THEN [key |-> key, value |-> value]
             ELSE dict[i]]
    ELSE Append(dict, [key |-> key, value |-> value])

InLoop(name) == scenario = name /\ epc = "loop" /\ year_pos <= Len(years)

\* trading_engine.py:39-48: the call for the year.
SmallCallYear ==
    /\ InLoop("small")
    /\ stack' = << Frame(yearly_data(years[year_pos]), scenario_cash, << >>,
                         FALSE, PosInf, NegInf) >>
    /\ spc' = "running"
    /\ epc' = "call"
    /\ UNCHANGED << inputs, pairs_call, ret, final_cash, moves, vpc, vlocals, validated_cash,
                    scenario, year_pos, month_pos, scenario_cash, cash_per_year,
                    all_moves >>

\* trading_engine.py:48-52: the call has returned.
SmallYearReturn ==
    /\ scenario = "small" /\ epc = "call"
    /\ ret.present /\ stack = << >>
    /\ scenario_cash' = ret.cash
    /\ cash_per_year' = DictSet(cash_per_year, years[year_pos], ret.cash)
    /\ all_moves' = all_moves \o ret.moves
    /\ ret' = NoRet
    /\ spc' = "idle"
    /\ year_pos' = year_pos + 1
    /\ epc' = "loop"
    /\ UNCHANGED << inputs, pairs_call, stack, final_cash, moves, vpc, vlocals,
                    validated_cash, scenario, month_pos >>

\* trading_engine.py:113-117: a month without data.
LargeSkipMonth ==
    /\ InLoop("large")
    /\ month_pos <= Len(months)
    /\ monthly_data(years[year_pos], months[month_pos]) = << >>
    /\ month_pos' = month_pos + 1
    /\ UNCHANGED << inputs, pairs_call, svars, moves, vpc, vlocals, validated_cash, scenario,
                    epc, year_pos, scenario_cash, cash_per_year, all_moves >>

\* LargeCallMonth, each month starting from the initial cash.
LargeCallMonthFreshCash ==
    /\ InLoop("large")
    /\ month_pos <= Len(months)
    /\ LET data == monthly_data(years[year_pos], months[month_pos])
           max_past_pairs ==
               dynamic_max_pairs(arg_max_past_pairs, years[year_pos], max_year)
           min_profit == dynamic_minimum_profit(scenario_cash)
       IN  /\ data # << >>
           /\ stack' = << Frame(data, initial_cash, << >>, FALSE,
                                max_past_pairs, min_profit) >>
    /\ spc' = "running"
    /\ epc' = "call"
    /\ UNCHANGED << inputs, pairs_call, ret, final_cash, moves, vpc, vlocals, validated_cash,
                    scenario, year_pos, month_pos, scenario_cash, cash_per_year,
                    all_moves >>

\* trading_engine.py:113-131: the call for the month.
LargeCallMonth ==
    /\ InLoop("large")
    /\ month_pos <= Len(months)
    /\ LET data == monthly_data(years[year_pos], months[month_pos])
           max_past_pairs ==
               dynamic_max_pairs(arg_max_past_pairs, years[year_pos], max_year)
           min_profit == dynamic_minimum_profit(scenario_cash)
       IN  /\ data # << >>
           /\ stack' = << Frame(data, scenario_cash, << >>, FALSE,
                                max_past_pairs, min_profit) >>
    /\ spc' = "running"
    /\ epc' = "call"
    /\ UNCHANGED << inputs, pairs_call, ret, final_cash, moves, vpc, vlocals, validated_cash,
                    scenario, year_pos, month_pos, scenario_cash, cash_per_year,
                    all_moves >>

\* trading_engine.py:124-134: the call has returned.
LargeMonthReturn ==
    /\ scenario = "large" /\ epc = "call"
    /\ ret.present /\ stack = << >>
    /\ scenario_cash' = ret.cash
    /\ all_moves' = all_moves \o ret.moves
    /\ ret' = NoRet
    /\ spc' = "idle"
    /\ month_pos' = month_pos + 1
    /\ epc' = "loop"
    /\ UNCHANGED << inputs, pairs_call, stack, final_cash, moves, vpc, vlocals,
                    validated_cash, scenario, year_pos, cash_per_year >>

\* Variant of LargeYearEnd: the ledger gets the cash the scenario started with.
LargeYearEndInitialCash ==
    /\ InLoop("large")
    /\ month_pos > Len(months)
    /\ cash_per_year' = DictSet(cash_per_year, years[year_pos], initial_cash)
    /\ year_pos' = year_pos + 1
    /\ month_pos' = 1
    /\ UNCHANGED << inputs, pairs_call, svars, moves, vpc, vlocals, validated_cash, scenario,
                    epc, scenario_cash, all_moves >>

\* trading_engine.py:136-137: the months of the year are done.
LargeYearEnd ==
    /\ InLoop("large")
    /\ month_pos > Len(months)
    /\ cash_per_year' = DictSet(cash_per_year, years[year_pos], scenario_cash)
    /\ year_pos' = year_pos + 1
    /\ month_pos' = 1
    /\ UNCHANGED << inputs, pairs_call, svars, moves, vpc, vlocals, validated_cash, scenario,
                    epc, scenario_cash, all_moves >>

\* trading_engine.py:55, 140 and main.py:53, 61:
\* final_cash, cash_per_year, moves = run_..._scenario(...)
ScenarioReturn ==
    /\ scenario \in {"small", "large"}
    /\ epc = "loop"
    /\ year_pos > Len(years)
    /\ final_cash' = scenario_cash
    /\ moves' = all_moves
    /\ spc' = "returned"
    /\ epc' = "done"
    /\ UNCHANGED << inputs, pairs_call, stack, ret, vpc, vlocals, validated_cash, scenario,
                    year_pos, month_pos, scenario_cash, cash_per_year,
                    all_moves >>

\* The bars of the scenario runs: one stock on four dates, in three months
\* of two years; any of them may be missing, not all.
ScenarioSlots ==
    << [Date |-> 1, Stock |-> Stocks[1]], [Date |-> 2, Stock |-> Stocks[1]],
       [Date |-> 3, Stock |-> Stocks[1]], [Date |-> 4, Stock |-> Stocks[1]] >>

ScenarioData ==
    {DataOf(ScenarioSlots, f, 1) :
        f \in [1..Len(ScenarioSlots) -> Shapes \cup {Absent}]} \ {<< >>}

\* Cash below, at and above the two thresholds of dynamic_minimum_profit.
ScenarioCash ==
    {210, 1000 * Scale - 1, 1000 * Scale, 10000000 * Scale,
     10000000 * Scale + 1}

InitScenario ==
    /\ combined_data \in ScenarioData
    /\ initial_cash \in ScenarioCash
    /\ \/ /\ scenario = "small"
          /\ strategy = "simple"
          /\ arg_max_past_pairs = PosInf
       \/ /\ scenario = "large"
          /\ strategy = "extra"
          /\ arg_max_past_pairs \in PairBudgets
    /\ arg_min_profit = NegInf
    /\ spc = "idle"
    /\ stack = << >>
    /\ ret = NoRet
    /\ final_cash = 0
    /\ moves = << >>
    /\ vpc = "idle"
    /\ move_idx = 0
    /\ current_date = VInit.current_date
    /\ daily_cash = VInit.daily_cash
    /\ daily_revenue = VInit.daily_revenue
    /\ validated_cash = 0
    /\ epc = "loop"
    /\ year_pos = 1
    /\ month_pos = 1
    /\ scenario_cash = initial_cash
    /\ cash_per_year = << >>
    /\ all_moves = << >>
    /\ call_year = 0
    /\ call_last_year = 0
    /\ call_result = NoResult

NextScenario ==
    \/ SmallCallYear \/ SmallYearReturn
    \/ LargeSkipMonth \/ LargeCallMonth \/ LargeMonthReturn \/ LargeYearEnd
    \/ ScenarioReturn
    \/ GreedyNoCandidates \/ GreedyNoProfit \/ GreedyTrade
    \/ ExtraBudgetExhausted \/ ExtraNoCandidates \/ ExtraNoProfit
    \/ ExtraBelowMinProfit \/ ExtraSelect \/ ExtraResume
    \/ MainValidate

SpecScenario == InitScenario /\ [][NextScenario]_vars

(***************************************************************************)
(* What a move list says on the data of the run: the bar a move refers to, *)
(* what it costs and what it brings in (validator.py:64-100).              *)
(***************************************************************************)
HasBar(m) ==
    /\ CanParseDate(m[1])
    /\ \E b \in SeqRange(combined_data) :
           b.Stock = m[3] /\ b.Date = ParseDate(m[1])

BarOf(m) ==
    CHOOSE b \in SeqRange(combined_data) :
        b.Stock = m[3] /\ b.Date = ParseDate(m[1])

IsBuy(m) == m[2] \in {"buy-low", "buy-open"}
IsSell(m) == m[2] \in {"sell-close", "sell-high"}

MoveCost(m) ==
    IF m[2] = "buy-low" THEN BarOf(m).Low * BUY_COST_FACTOR * ParseInt(m[4])
    ELSE IF m[2] = "buy-open" THEN BarOf(m).Open * BUY_COST_FACTOR * ParseInt(m[4])
    ELSE 0

MoveProceeds(m) ==
    IF m[2] = "sell-close" THEN BarOf(m).Close * SELL_REVENUE_FACTOR * ParseInt(m[4])
    ELSE IF m[2] = "sell-high" THEN BarOf(m).High * SELL_REVENUE_FACTOR * ParseInt(m[4])
    ELSE 0

RECURSIVE Sum(_)
Sum(s) == IF s = << >> THEN 0 ELSE Head(s) + Sum(Tail(s))

Abs(x) == IF x >= 0 THEN x ELSE 0 - x

\* abs(final_cash - validated_cash) < 0.01 (main.py:103), in units of 1/Scale.
TOLERANCE == 1

LastDate(mv) == IF mv = << >> THEN NoDate ELSE ParseDate(mv[Len(mv)][1])

MoveDates(mv) == [j \in 1..Len(mv) |-> ParseDate(mv[j][1])]

NonDecreasing(s) == \A j \in 1..(Len(s) - 1) : s[j] <= s[j + 1]

\* Every move a call has appended so far, and the moves returned.
EmittedMoves ==
    SeqRange(moves) \cup SeqRange(ret.moves)
    \cup UNION {SeqRange(stack[i].moves) : i \in 1..Len(stack)}

(***************************************************************************)
(* Properties of the strategy runs (SpecStrategy).                         *)
(***************************************************************************)

C3_ZeroBudgetIsSimple ==
    (strategy = "extra" /\ arg_max_past_pairs = Fin(0))
        => /\ \A i \in 1..Len(stack) : stack[i].past => stack[i].moves = << >>
           /\ spc = "returned" =>
                LET simple == greedy_trading_recursive(combined_data,
                                                       initial_cash, << >>)
                IN  final_cash = simple.cash /\ moves = simple.moves

\* A lookback run with max_past_pairs = 0 and a finite min_profit that has
\* returned two trades.
C3_Witness ==
    /\ strategy = "extra"
    /\ arg_max_past_pairs = Fin(0)
    /\ arg_min_profit = Fin(Scale * Percent)
    /\ spc = "returned"
    /\ Len(moves) >= 4

\* C4: every move emitted by either strategy, forward or corrective, has a
\* quantity that is an integer, at least 1 and at most the Max_Quantity of
\* the bar of the move's stock and date.
C4_QuantityInRange ==
    \A m \in EmittedMoves :
        /\ HasBar(m)
        /\ CanParseInt(m[4])
        /\ ParseInt(m[4]) >= 1
        /\ ParseInt(m[4]) <= BarOf(m).Max_Quantity

\* A returned lookback list with a trade limited by the cash (below
\* Max_Quantity) and a trade at Max_Quantity.
C4_Witness ==
    /\ strategy = "extra"
    /\ spc = "returned"
    /\ \E m \in SeqRange(moves) : ParseInt(m[4]) < BarOf(m).Max_Quantity
    /\ \E m \in SeqRange(moves) :
           ParseInt(m[4]) = BarOf(m).Max_Quantity /\ ParseInt(m[4]) > 1

\* C5: in the simple strategy each executed trade leaves strictly more cash
\* than there was before it, and is dated strictly after the trade before
\* it, so no two trades of a call share a date.
C5_SimpleMonotone ==
    [][GreedyTrade =>
          /\ Top'.cash > Top.cash
          /\ LastDate(Top'.moves) > LastDate(Top.moves)
          /\ \A i \in 1..Len(Top.moves) :
                 ParseDate(Top.moves[i][1]) < LastDate(Top'.moves)]_vars

\* A simple call that has executed two trades and is about to look for a
\* third.
C5_Witness ==
    /\ strategy = "simple"
    /\ spc = "running"
    /\ stack # << >>
    /\ Len(Top.moves) = 4
    /\ Top.cash > initial_cash
    /\ ParseDate(Top.moves[1][1]) < ParseDate(Top.moves[3][1])

(***************************************************************************)
(* Properties of the validator runs (Spec).                                *)
(***************************************************************************)
Prefix(k) == SubSeq(moves, 1, k)
Remove(ms, i) == SubSeq(ms, 1, i - 1) \o SubSeq(ms, i + 1, Len(ms))

\* A move that parses, has a bar and respects the bar's Max_Quantity.
PassesMoveChecks(m) ==
    /\ HasBar(m)
    /\ CanParseInt(m[4])
    /\ ParseInt(m[4]) <= BarOf(m).Max_Quantity

\* The moves 1..k are dated in non-decreasing order.
InOrder(k) ==
    \A j \in 1..(k - 1) : ParseDate(moves[j][1]) <= ParseDate(moves[j + 1][1])

\* The cash a buy at position k can draw on: the initial cash, plus the
\* proceeds of the earlier sells dated strictly before it, minus the earlier
\* buys.
Settled(k) ==
    initial_cash
    + Sum([j \in 1..(k - 1) |->
              IF ParseDate(moves[j][1]) < ParseDate(moves[k][1])
              THEN MoveProceeds(moves[j]) ELSE 0])
    - Sum([j \in 1..(k - 1) |-> MoveCost(moves[j])])

\* initial_cash - buys + sells over the first k moves.
Ledger(k) ==
    initial_cash
    - Sum([j \in 1..k |-> MoveCost(moves[j])])
    + Sum([j \in 1..k |-> MoveProceeds(moves[j])])

\* C6: validate_moves returns -1.0 for every list in which some move is
\* dated strictly earlier than the move right before it; a list it accepts
\* is non-decreasing in date.
C6_OutOfOrderFails ==
    vpc = "returned" =>
        /\ (\E i \in 1..(Len(moves) - 1) :
                /\ CanParseDate(moves[i][1]) /\ CanParseDate(moves[i + 1][1])
                /\ ParseDate(moves[i + 1][1]) < ParseDate(moves[i][1]))
           => validated_cash = FAILURE
        /\ validated_cash # FAILURE => InOrder(Len(moves))

\* A run that failed at a move which passes every other check and is dated
\* before the move it follows.
C6_Witness ==
    /\ vpc = "returned"
    /\ validated_cash = FAILURE
    /\ move_idx >= 1
    /\ PassesMoveChecks(moves[move_idx + 1])
    /\ IsSell(moves[move_idx + 1])
    /\ ParseDate(moves[move_idx + 1][1]) < ParseDate(moves[move_idx][1])

\* C7: validate_moves returns -1.0 when a buy costs more than the initial
\* cash plus the proceeds of the sells dated strictly before the buy minus
\* the earlier buys: proceeds of a sell of the same date, even listed before
\* the buy, do not pay for it, and a first buy above initial_cash fails.
C7_BuyNeedsSettledCash ==
    vpc = "returned" =>
        \A k \in 1..Len(moves) :
            (/\ \A j \in 1..k : PassesMoveChecks(moves[j])
             /\ InOrder(k)
             /\ IsBuy(moves[k])
             /\ MoveCost(moves[k]) > Settled(k))
            => validated_cash = FAILURE

\* A run that failed at a buy which the proceeds of a sell listed before it
\* on the same date would have paid.
C7_Witness ==
    /\ vpc = "returned"
    /\ validated_cash = FAILURE
    /\ move_idx >= 1
    /\ LET k == move_idx + 1
       IN  /\ \A j \in 1..k : PassesMoveChecks(moves[j])
           /\ InOrder(k)
           /\ IsBuy(moves[k])
           /\ IsSell(moves[k - 1])
           /\ moves[k - 1][1] = moves[k][1]
           /\ MoveCost(moves[k]) > Settled(k)
           /\ MoveCost(moves[k]) <= Settled(k) + MoveProceeds(moves[k - 1])

\* C8: validate_moves stops at the first move that fails a check and returns
\* -1.0: a list that extends a failing list fails, the moves before the
\* failing one were all accepted, and a result other than -1.0 is the
\* balance after the whole list.
C8_NoPartialValidation ==
    vpc = "returned" =>
        /\ (\E k \in 1..Len(moves) :
                validate_moves(initial_cash, Prefix(k), combined_data) = FAILURE)
           => validated_cash = FAILURE
        /\ validated_cash = FAILURE =>
               /\ move_idx < Len(moves)
               /\ validate_moves(initial_cash, Prefix(move_idx), combined_data)
                      # FAILURE
        /\ validated_cash # FAILURE =>
               /\ move_idx = Len(moves)
               /\ validated_cash = daily_cash + daily_revenue

\* A run that failed at its second move with a move left after it.
C8_Witness ==
    /\ vpc = "returned"
    /\ validated_cash = FAILURE
    /\ move_idx = 1
    /\ Len(moves) = 3
    /\ validate_moves(initial_cash, Remove(moves, 2), combined_data) # FAILURE

IsUnknown(m) == ~IsBuy(m) /\ ~IsSell(m)

\* C9 as claimed: the list with an unsupported move and the list without it
\* have the same result.
C9_RemovalNeverMatters ==
    vpc = "returned" =>
        \A i \in 1..Len(moves) :
            IsUnknown(moves[i]) =>
                validated_cash =
                    validate_moves(initial_cash, Remove(moves, i), combined_data)

\* The unsupported move at position i passes the checks every move
\* undergoes, is dated no later than the move after it, and is not alone.
UnknownInPlace(i) ==
    /\ Len(moves) >= 2
    /\ PassesMoveChecks(moves[i])
    /\ (i > 1 /\ CanParseDate(moves[i - 1][1]))
           => ParseDate(moves[i - 1][1]) <= ParseDate(moves[i][1])
    /\ (i < Len(moves) /\ CanParseDate(moves[i + 1][1]))
           => ParseDate(moves[i][1]) <= ParseDate(moves[i + 1][1])

\* C9: a move with an unsupported action changes no balance and is not what
\* fails a run, provided it passes the checks every move undergoes (date and
\* quantity parse, bar exists, quantity within Max_Quantity, date not before
\* the previous move's); removing it leaves the result unchanged provided,
\* besides, its date is not after the next move's and it is not the only
\* move of the list.
C9_UnknownActionIgnored ==
    vpc = "returned" =>
        \A i \in 1..Len(moves) :
            IsUnknown(moves[i]) =>
                /\ UnknownInPlace(i) =>
                       validated_cash =
                           validate_moves(initial_cash, Remove(moves, i),
                                          combined_data)
                /\ (/\ validated_cash = FAILURE
                    /\ i = move_idx + 1
                    /\ PassesMoveChecks(moves[i]))
                   => /\ i > 1
                      /\ ParseDate(moves[i][1]) < ParseDate(moves[i - 1][1])

\* An accepted list with an unsupported move between a buy and a sell.
C9_Witness ==
    /\ vpc = "returned"
    /\ validated_cash # FAILURE
    /\ Len(moves) = 3
    /\ IsBuy(moves[1]) /\ IsUnknown(moves[2]) /\ IsSell(moves[3])
    /\ UnknownInPlace(2)
    /\ validated_cash # initial_cash

\* C10: while the loop runs, daily_cash + daily_revenue is the initial cash
\* minus the buys plus the sells of the moves processed, whether settled or
\* not; on success with a non-empty list the result is that amount for the
\* whole list, the unsettled proceeds of the last date included.
C10_BalanceIsLedger ==
    /\ (vpc = "loop" /\ move_idx >= 1)
           => daily_cash + daily_revenue = Ledger(move_idx)
    /\ (vpc = "returned" /\ validated_cash # FAILURE /\ moves # << >>)
           => validated_cash = Ledger(Len(moves))

\* An accepted list over two dates whose last date leaves proceeds that
\* were never settled.
C10_Witness ==
    /\ vpc = "returned"
    /\ validated_cash # FAILURE
    /\ Len(moves) = 3
    /\ \E i \in 1..Len(moves) : IsBuy(moves[i])
    /\ ParseDate(moves[1][1]) < current_date
    /\ daily_revenue > 0
    /\ daily_cash # initial_cash

(***************************************************************************)
(* The end-to-end case.                                                    *)
(***************************************************************************)
IsEndToEnd == combined_data = EndToEndData /\ initial_cash = EndToEndCash

EndToEndMoves ==
    << << "2020-01-01", "buy-low", "X", << "1", "0", "0" >> >>,
       << "2020-01-01", "sell-close", "X", << "1", "0", "0" >> >> >>

EndToEndReturned ==
    /\ spc = "returned" => moves = EndToEndMoves /\ final_cash = 1180 * Scale
    /\ vpc = "returned" => validated_cash = 1180 * Scale

\* C11 as claimed: buy-low/sell-close brings 180 and buy-open/sell-high 178.
C11_EndToEndAsClaimed ==
    IsEndToEnd =>
        /\ profit_low(EndToEndData[1], EndToEndCash) = 180 * Scale
        /\ profit_open(EndToEndData[1], EndToEndCash) = 178 * Scale
        /\ EndToEndReturned

\* C11: on the one bar (2020-01-01, X, open 10, high 12, low 9, close 11,
\* Max_Quantity 100) with cash 1000, buy-low/sell-close brings 180 with 100
\* shares and buy-open/sell-high 176.22 with the 99 shares the cash affords;
\* the strategy returns the buy-low/sell-close pair of 100 shares and a
\* final cash of 1180, and the validator replaying the pair returns 1180.
C11_EndToEnd ==
    IsEndToEnd =>
        /\ quantity_low(EndToEndData[1], EndToEndCash) = 100
        /\ profit_low(EndToEndData[1], EndToEndCash) = 180 * Scale
        /\ quantity_open(EndToEndData[1], EndToEndCash) = 99
        /\ profit_open(EndToEndData[1], EndToEndCash) = 17622
        /\ EndToEndReturned

\* The case, run by the simple strategy and replayed by the validator.
C11_Witness ==
    /\ IsEndToEnd
    /\ strategy = "simple"
    /\ vpc = "returned"
    /\ Len(moves) = 2
    /\ validated_cash = 1180 * Scale

(***************************************************************************)
(* The candidates of the simple strategy (SpecStrategy).                   *)
(***************************************************************************)
\* The bars of the input dated after the last executed trade (all of them
\* before the first trade) that the cash of the step can buy.
InputCandidates(f) ==
    LET Later(b) == b.Date > LastDate(f.moves)
    IN  Affordable(SelectSeq(combined_data, Later), f.cash)

BestProfit(df, cash) == max_profit_per_trade(df[best_profit_idx(df, cash)], cash)

\* C13: at every step of greedy_trading_recursive the candidates are the
\* input bars dated after the last executed trade that the current cash can
\* buy; the executed trade earns the largest profit over those bars and
\* both variants; and the strategy returns only when there is no such bar
\* or that largest profit is not positive.
C13_CandidatesFromInput ==
    /\ [](Running("simple")
            => Affordable(Top.df, Top.cash) = InputCandidates(Top))
    /\ [][GreedyTrade
            => Top'.cash - Top.cash
                   = BestProfit(InputCandidates(Top), Top.cash)]_vars
    /\ []((strategy = "simple" /\ ret.present)
            => LET last == [cash |-> ret.cash, moves |-> ret.moves]
               IN  \/ InputCandidates(last) = << >>
                   \/ NotProfitable(BestProfit(InputCandidates(last), ret.cash)))

\* The run of the costly later bar behind the failure: the cash 2.10 buys two
\* shares on the first date and grows to 4.04, the bar of the second date
\* (3.03 a share, sold at 3.96) is then within reach, and the strategy has
\* returned without trading it.
C13_DroppedBarReturned ==
    /\ strategy = "simple"
    /\ combined_data = << Bar(1, "X", 1, 2, 1, 1, 2), Bar(2, "X", 3, 4, 3, 3, 1) >>
    /\ initial_cash = 210
    /\ spc = "returned"
    /\ final_cash = 404
    /\ Len(moves) = 2

(***************************************************************************)
(* The lookback strategy: order, dates, budget and threshold of the        *)
(* corrective trades (SpecStrategy).                                       *)
(***************************************************************************)
\* Every move list a call of the run holds or has returned.
MoveLists ==
    {moves, ret.moves} \cup {stack[i].moves : i \in 1..Len(stack)}

\* C14: in every move list of extra_greedy_trading_recursive the dates never
\* decrease, and when the corrective sub-search of a chosen trade returns,
\* the list becomes the moves it already had, then all the moves of the
\* sub-search, then the buy and the sell of the chosen trade.
C14_SplicedInOrder ==
    /\ [](strategy = "extra"
            => \A mv \in MoveLists : NonDecreasing(MoveDates(mv)))
    /\ [][(strategy = "extra" /\ stack # << >> /\ Top.pc = "sub" /\ ret.present)
            => LET before == Len(Top.moves)
                   between == Len(ret.moves)
               IN  /\ Len(Top'.moves) = before + between + 2
                   /\ SubSeq(Top'.moves, 1, before) = Top.moves
                   /\ SubSeq(Top'.moves, before + 1, before + between) = ret.moves
                   /\ Top'.moves[before + between + 1][2] = Top.trade.buy
                   /\ Top'.moves[before + between + 2][2] = Top.trade.sell]_vars

\* A returned list of three pairs whose second pair, a corrective trade, has
\* the date of the third, the forward trade it was searched for.
C14_Witness ==
    /\ strategy = "extra"
    /\ spc = "returned"
    /\ Len(moves) = 6
    /\ MoveDates(moves)[1] < MoveDates(moves)[3]
    /\ MoveDates(moves)[3] = MoveDates(moves)[5]
    /\ moves[3][3] # moves[5][3]

\* The dates a call works on: of the bars of its frame and of its moves.
BarDates(f) == {b.Date : b \in SeqRange(f.df)}
DatesOf(mv) == {MoveDates(mv)[j] : j \in 1..Len(mv)}

\* The move trades the bar: same date, same stock.
Trades(m, row) == ParseDate(m[1]) = row.Date /\ m[3] = row.Stock

\* The moves of the corrective search running for the frame at position i:
\* of the calls above it, and of the call that has just returned to it.
CorrectiveMoves(i) ==
    UNION {SeqRange(stack[k].moves) : k \in (i + 1)..Len(stack)}
    \cup (IF ret.present /\ Len(stack) >= i THEN SeqRange(ret.moves) ELSE {})

\* C15: the forward trades of a call have strictly increasing dates; the
\* corrective trades searched for a forward trade dated D are dated after
\* the previous forward trade and not after D, and none of them trades the
\* chosen bar; inside a corrective branch each further step only looks at
\* dates after the last trade of the branch.
C15_DateWindows ==
    (strategy = "extra" /\ spc = "running")
        => /\ \A i \in 1..Len(stack) :
                  /\ \A d \in BarDates(stack[i]) : d > LastDate(stack[i].moves)
                  /\ stack[i].pc = "sub"
                        => /\ stack[i].row.Date > LastDate(stack[i].moves)
                           /\ \A k \in (i + 1)..Len(stack) :
                                  /\ stack[i].row \notin SeqRange(stack[k].df)
                                  /\ \A d \in BarDates(stack[k]) :
                                         d <= stack[i].row.Date
                           /\ \A m \in CorrectiveMoves(i) :
                                  /\ ParseDate(m[1]) <= stack[i].row.Date
                                  /\ ~Trades(m, stack[i].row)
           /\ stack # << >>
                 => /\ ~stack[1].past
                    /\ \A k \in 2..Len(stack) :
                           /\ stack[k].past
                           /\ \A d \in BarDates(stack[k]) :
                                  d > LastDate(stack[1].moves)
                    /\ \A m \in CorrectiveMoves(1) :
                           ParseDate(m[1]) > LastDate(stack[1].moves)

\* A second forward trade is selected, and its corrective search has traded
\* on a date after the first forward trade.
C15_Witness ==
    /\ strategy = "extra" /\ spc = "running"
    /\ Len(stack) >= 2
    /\ stack[1].pc = "sub"
    /\ stack[1].moves # << >>
    /\ stack[2].moves # << >>

\* The corrective search of a forward trade has returned to the forward call.
CorrectiveReturned ==
    /\ strategy = "extra" /\ spc = "running"
    /\ Len(stack) = 1
    /\ stack[1].pc = "sub"
    /\ ret.present

\* C16: when a forward call has a finite max_past_pairs = M, the corrective
\* search made for one forward trade, nested and continued calls included,
\* returns at most M buy/sell pairs.
C16_BudgetCeiling ==
    (CorrectiveReturned /\ stack[1].max_past_pairs # PosInf)
        => Len(ret.moves) \div 2 <= stack[1].max_past_pairs.n

\* A corrective search with a finite positive budget has returned a pair.
C16_Witness ==
    /\ CorrectiveReturned
    /\ stack[1].max_past_pairs = Fin(MaxPastPairs)
    /\ Len(ret.moves) >= 2

\* The profit of the trade a call has selected, and the profits its
\* candidates offer.
SelectedProfit(f) == f.trade.revenue - f.trade.cost

CandidateProfits(f) ==
    {max_profit_per_trade(b, f.cash) : b \in SeqRange(Affordable(f.df, f.cash))}

\* C17: a trade selected by a corrective call has a profit > 0 and
\* >= min_profit; a corrective call whose best candidate is below min_profit
\* returns its cash and its moves unchanged, and then no candidate reaches
\* min_profit; a forward call selects its best trade whenever the profit of
\* that trade is > 0, whatever min_profit is.
C17_MinProfitGate ==
    /\ [](strategy = "extra"
            => \A i \in 1..Len(stack) :
                  (stack[i].pc = "sub" /\ stack[i].past)
                      => /\ SelectedProfit(stack[i]) > 0
                         /\ XGeq(SelectedProfit(stack[i]) * Percent,
                                 stack[i].min_profit))
    /\ [][ExtraBelowMinProfit
            => /\ Top.past
               /\ ret'.cash = Top.cash
               /\ ret'.moves = Top.moves
               /\ \A p \in CandidateProfits(Top) :
                      ~XGeq(p * Percent, Top.min_profit)]_vars
    /\ [][(Running("extra") /\ ~Top.past
             /\ \E p \in CandidateProfits(Top) : p > 0)
            => /\ Len(stack') = Len(stack) + 1
               /\ stack'[Len(stack)].pc = "sub"
               /\ SelectedProfit(stack'[Len(stack)])
                      = BestProfit(Affordable(Top.df, Top.cash), Top.cash)]_vars

\* A corrective call has given up on a best candidate with a positive profit
\* below min_profit, in a run whose forward trade earned less than min_profit.
C17_Witness ==
    /\ CorrectiveReturned
    /\ stack[1].min_profit = Fin(Scale * Percent)
    /\ ret.moves = << >>
    /\ ret.cash = stack[1].cash - stack[1].trade.cost
    /\ SelectedProfit(stack[1]) * Percent < Scale * Percent
    /\ \E b \in SeqRange(combined_data) :
           /\ b # stack[1].row
           /\ b.Date <= stack[1].row.Date
           /\ max_profit_per_trade(b, ret.cash) > 0

\* The conditions under which a call returns without calling again.
BaseCase(f) ==
    \/ BudgetExhausted(f)
    \/ CandidateProfits(f) = {}
    \/ \A p \in CandidateProfits(f) : NotProfitable(p)
    \/ f.past /\ \A p \in CandidateProfits(f) :
                     ~XGeq(p * Percent, f.min_profit)

\* C18: both strategies terminate; every call made by a call (forward
\* continuation, corrective sub-search, corrective continuation) gets fewer
\* bars than the call that makes it; a call returns by itself only on an
\* empty candidate set, a best profit <= 0, an exhausted pair budget or a
\* failed min_profit check; and a run never makes more pairs than the input
\* has bars.
C18_Terminates ==
    /\ <>(spc = "returned")
    /\ [][(spc = "running" /\ spc' = "running" /\ Len(stack') >= Len(stack))
            => Len(Top'.df) < Len(Top.df)]_vars
    /\ [][(spc = "running" /\ ~ret.present /\ Len(stack') < Len(stack))
            => (Top.pc = "call" /\ BaseCase(Top))]_vars
    /\ [](\A mv \in MoveLists : Len(mv) \div 2 <= Len(combined_data))

\* A run that has returned with one pair for every bar of an input of three
\* bars or more.
C18_Witness ==
    /\ strategy = "extra"
    /\ spc = "returned"
    /\ Len(combined_data) >= 3
    /\ Len(moves) \div 2 = Len(combined_data)

(***************************************************************************)
(* Properties of the scenario runs (SpecScenario).                         *)
(***************************************************************************)
ScenarioValidated == scenario # "none" /\ vpc = "returned"

LedgerYears == [i \in 1..Len(cash_per_year) |-> cash_per_year[i].key]
LedgerCash == [i \in 1..Len(cash_per_year) |-> cash_per_year[i].value]

\* The month the loop of run_large_scenario is at has no bars.
AtEmptyMonth ==
    /\ InLoop("large")
    /\ month_pos <= Len(months)
    /\ monthly_data(years[year_pos], months[month_pos]) = << >>

\* C19: in run_large_scenario a (year, month) without bars changes no cash
\* and calls no strategy; the ledger holds one entry for each year done, in
\* order, made when the months of the year are done and equal to the cash
\* at that point, and never changed afterwards; each month is called with
\* the cash the previous call returned; the amounts of the ledger never
\* decrease, and the final cash returned is the entry of the last year.
C19_PeriodLedger ==
    /\ [](scenario = "large"
            => /\ LedgerYears = SubSeq(years, 1, Len(cash_per_year))
               /\ Len(cash_per_year) = Min(year_pos, Len(years) + 1) - 1
               /\ NonDecreasing(LedgerCash)
               /\ epc = "done"
                     => /\ Len(cash_per_year) = Len(years)
                        /\ final_cash = LedgerCash[Len(years)])
    /\ [][AtEmptyMonth
            => /\ scenario_cash' = scenario_cash
               /\ all_moves' = all_moves
               /\ stack' = << >> /\ spc' = spc
               /\ month_pos' = month_pos + 1]_vars
    /\ [][scenario = "large"
            => /\ SubSeq(cash_per_year', 1, Len(cash_per_year)) = cash_per_year
               /\ Len(cash_per_year') > Len(cash_per_year)
                     => /\ month_pos > Len(months)
                        /\ cash_per_year'[Len(cash_per_year')]
                               = [key |-> years[year_pos], value |-> scenario_cash]
               /\ (epc = "loop" /\ epc' = "call")
                     => stack'[1].cash = scenario_cash
               /\ (epc = "call" /\ epc' = "loop")
                     => scenario_cash' = ret.cash
               /\ scenario_cash' # scenario_cash
                     => (epc = "call" /\ epc' = "loop")]_vars

\* A monthly run over two years has returned: a month without bars was
\* passed over, and the ledger holds a larger amount for the second year.
C19_Witness ==
    /\ scenario = "large"
    /\ epc = "done"
    /\ Len(cash_per_year) = 2
    /\ LedgerCash[1] > initial_cash
    /\ LedgerCash[2] > LedgerCash[1]
    /\ final_cash = LedgerCash[2]
    /\ \E y \in SeqRange(years), m \in SeqRange(months) :
           monthly_data(y, m) = << >>

\* x <= y for two thresholds.
XLeq(x, y) == x.inf < y.inf \/ (x.inf = y.inf /\ (x.inf # 0 \/ x.n <= y.n))

\* A monthly call is running; its cash at the start of the month is
\* scenario_cash, its threshold the min_profit of its frames. A cash of c
\* units of 1/Scale is c / Scale, a hundredth of it c / (Scale * Percent):
\* the threshold Fin(c).
MonthRunning == scenario = "large" /\ epc = "call" /\ stack # << >>

\* C20: dynamic_minimum_profit is minus infinity for a cash below 1000, a
\* hundredth of the cash from 1000 up to 10,000,000, both included (10 at
\* 1000 and 100,000 at 10,000,000), and 100,000 above; it never decreases
\* when the cash grows; and every monthly call of run_large_scenario gets
\* the value for the cash at the start of that month.
C20_DynamicMinimumProfit ==
    /\ dynamic_minimum_profit(1000 * Scale) = Fin(10 * Scale * Percent)
    /\ dynamic_minimum_profit(10000000 * Scale) = Fin(100000 * Scale * Percent)
    /\ \A a, b \in ScenarioCash \cup {initial_cash, scenario_cash} :
           a <= b => XLeq(dynamic_minimum_profit(a), dynamic_minimum_profit(b))
    /\ MonthRunning
          => \A i \in 1..Len(stack) :
                /\ scenario_cash < 1000 * Scale
                      => stack[i].min_profit = NegInf
                /\ (1000 * Scale <= scenario_cash
                       /\ scenario_cash <= 10000000 * Scale)
                      => stack[i].min_profit = Fin(scenario_cash)
                /\ scenario_cash > 10000000 * Scale
                      => stack[i].min_profit = Fin(100000 * Scale * Percent)

\* A month called with a threshold of a hundredth of its cash, in a run that
\* started below 1000: the threshold of the earlier month was minus infinity.
C20_Witness ==
    /\ MonthRunning
    /\ initial_cash < 1000 * Scale
    /\ scenario_cash >= 1000 * Scale
    /\ stack[1].min_profit = Fin(scenario_cash)

(***************************************************************************)
(* Properties of _dynamic_max_pairs (SpecPairs).                           *)
(***************************************************************************)
\* floor(m * (1 + 20000 / (r + 1)^2)) and floor(m * (1 + 15000 / (r + 1))),
\* of the exact quotients.
ExactScaling(m, r) ==
    IF r >= 40
    THEN (m * ((r + 1) * (r + 1) + 20000)) \div ((r + 1) * (r + 1))
    ELSE (m * (r + 1 + 15000)) \div (r + 1)

PairsReturned == call_result # NoResult
Remaining == call_last_year - call_year

\* C21: _dynamic_max_pairs returns unbounded for an unbounded base; for a
\* finite base m >= 0 and r remaining years it returns
\* floor(m * (1 + 20000 / (r + 1)^2)) when r >= 40 and
\* floor(m * (1 + 15000 / (r + 1))) when r < 40; the result is >= m, and is not
\* smaller for a year nearer to the last one, across r = 40 and r = 39 too.
C21_ScalingAsClaimed ==
    PairsReturned
        => /\ arg_max_past_pairs = PosInf => call_result = PosInf
           /\ arg_max_past_pairs # PosInf
                 => /\ call_result = Fin(ExactScaling(arg_max_past_pairs.n, Remaining))
                    /\ call_result.n >= arg_max_past_pairs.n
                    /\ \A r \in 0..Remaining :
                           dynamic_max_pairs(arg_max_past_pairs,
                                             call_last_year - r,
                                             call_last_year).n >= call_result.n

\* The call with base 7, six years before the last one, has returned 15006;
\* 7 * (1 + 15000 / 7) is 15007.
C21_OneBelow ==
    /\ arg_max_past_pairs = Fin(7)
    /\ Remaining = 6
    /\ call_result = Fin(15006)
    /\ ExactScaling(7, 6) = 15007

\* What the double arithmetic does keep: the result is the claimed floor or
\* one less, is >= the base, and does not decrease towards the last year.
PairsWithinOne ==
    (PairsReturned /\ arg_max_past_pairs # PosInf)
        => /\ call_result.n \in {ExactScaling(arg_max_past_pairs.n, Remaining),
                                 ExactScaling(arg_max_past_pairs.n, Remaining) - 1}
           /\ call_result.n >= arg_max_past_pairs.n
           /\ \A r \in 0..Remaining :
                  dynamic_max_pairs(arg_max_past_pairs, call_last_year - r,
                                    call_last_year).n >= call_result.n

(***************************************************************************)
(* The shape of the move lists of the strategies (SpecStrategy).           *)
(***************************************************************************)
\* The moves at positions 2i-1 and 2i of the list (2i and 2i+1 counted from 0).
BuyLeg(mv, i) == mv[2 * i - 1]
SellLeg(mv, i) == mv[2 * i]
Pairs(mv) == 1..(Len(mv) \div 2)

\* A buy leg immediately followed by its sell leg.
IsPair(buy, sell) ==
    /\ buy[1] = sell[1]
    /\ buy[3] = sell[3]
    /\ buy[4] = sell[4]
    /\ << buy[2], sell[2] >> \in {<< "buy-open", "sell-high" >>,
                                  << "buy-low", "sell-close" >>}

\* C22: every move list of either strategy has even length, and its moves at
\* positions 2i, 2i+1 are a buy leg immediately followed by its sell leg: same
\* date, stock and quantity, buy-open with sell-high or buy-low with
\* sell-close. So the pairs of a corrective search stand before or after a
\* pair, never between its two legs.
C22_PairedLegs ==
    \A mv \in MoveLists :
        /\ Len(mv) % 2 = 0
        /\ \A i \in Pairs(mv) : IsPair(BuyLeg(mv, i), SellLeg(mv, i))

\* The lookback strategy has returned three pairs, of both kinds, the second
\* being a corrective pair on the date of the third.
C22_Witness ==
    /\ strategy = "extra"
    /\ spc = "returned"
    /\ Len(moves) = 6
    /\ MoveDates(moves)[3] = MoveDates(moves)[5]
    /\ \E i, j \in Pairs(moves) :
           /\ BuyLeg(moves, i)[2] = "buy-open"
           /\ BuyLeg(moves, j)[2] = "buy-low"

(***************************************************************************)
(* Ties between bars and between the two variants (SpecStrategy).          *)
(***************************************************************************)
\* The position of a bar in the date-sorted input.
InputPosition(b) == CHOOSE k \in 1..Len(combined_data) : combined_data[k] = b

\* The bar a move trades.
InputBar(m) == CHOOSE b \in SeqRange(combined_data) : Trades(m, b)

\* The bar is a candidate of the call with the largest profit, and every
\* candidate before it in the input earns strictly less.
FirstBest(f, row) ==
    LET candidates == SeqRange(Affordable(f.df, f.cash))
    IN  /\ row \in candidates
        /\ \A c \in candidates :
               /\ max_profit_per_trade(c, f.cash) <= max_profit_per_trade(row, f.cash)
               /\ InputPosition(c) < InputPosition(row)
                      => max_profit_per_trade(c, f.cash) < max_profit_per_trade(row, f.cash)

\* buy-open only when its profit is strictly greater.
VariantOf(f, row) ==
    IF profit_open(row, f.cash) > profit_low(row, f.cash)
    THEN << "buy-open", "sell-high" >>
    ELSE << "buy-low", "sell-close" >>

\* C23: among the candidate bars with the same, largest profit the first in
\* the order of the date-sorted input is the one executed, and when the two
\* variants of that bar earn the same, buy-low / sell-close is executed:
\* buy-open / sell-high only when its profit is strictly greater. This holds
\* for the trades of greedy_trading_recursive and for the trades selected
\* and then appended by extra_greedy_trading_recursive.
C23_TieBreaking ==
    /\ [][GreedyTrade
            => LET buy == Top'.moves[Len(Top.moves) + 1]
                   sell == Top'.moves[Len(Top.moves) + 2]
               IN  /\ FirstBest(Top, InputBar(buy))
                   /\ << buy[2], sell[2] >> = VariantOf(Top, InputBar(buy))]_vars
    /\ [][ExtraSelect
            => LET selected == stack'[Len(stack)]
               IN  /\ FirstBest(Top, selected.row)
                   /\ << selected.trade.buy, selected.trade.sell >>
                          = VariantOf(Top, selected.row)]_vars
    /\ [][ExtraResume
            => LET buy == Top'.moves[Len(Top'.moves) - 1]
                   sell == Top'.moves[Len(Top'.moves)]
               IN  /\ InputBar(buy) = Top.row
                   /\ << buy[2], sell[2] >> = VariantOf(Top, Top.row)]_vars

\* With 2.10 the first two bars of the input, of the same date, earn 1.94
\* each, the first by either variant (one share at open 2 sold at 4, or two
\* shares at low 1 sold at 2), the second by buy-open only; the strategy has
\* returned and its first pair is buy-low / sell-close on the first bar.
C23_Witness ==
    /\ spc = "returned"
    /\ initial_cash = 210
    /\ Len(combined_data) >= 2
    /\ combined_data[1] = Bar(1, "X", 2, 4, 1, 2, 2)
    /\ combined_data[2] = Bar(1, "Y", 1, 2, 1, 1, 2)
    /\ profit_open(combined_data[1], initial_cash)
           = profit_low(combined_data[1], initial_cash)
    /\ max_profit_per_trade(combined_data[1], initial_cash)
           = max_profit_per_trade(combined_data[2], initial_cash)
    /\ Len(moves) >= 2
    /\ moves[1] = Move("2020-01-01", "buy-low", "X", "2")
    /\ moves[2] = Move("2020-01-01", "sell-close", "X", "2")

(***************************************************************************)
(* A bar is traded once (SpecStrategy).                                    *)
(***************************************************************************)
\* The bar (stock, date) of the pair at position i of the list.
TradedBar(mv, i) == << BuyLeg(mv, i)[3], BuyLeg(mv, i)[1] >>

\* C24: in the moves of one call of a strategy every bar (stock, date) is
\* traded at most once, the forward and the corrective trades taken
\* together: no two pairs of a move list have the same stock and date.
C24_BarTradedOnce ==
    \A mv \in MoveLists :
        \A i, j \in Pairs(mv) :
            TradedBar(mv, i) = TradedBar(mv, j) => i = j

\* The lookback strategy has returned a pair for every bar of an input of
\* four bars, two stocks on each of two dates; on a date the trade of one
\* stock is corrective to the trade of the other.
C24_Witness ==
    /\ strategy = "extra"
    /\ spc = "returned"
    /\ Len(combined_data) = 4
    /\ Len(moves) = 8
    /\ {TradedBar(moves, i) : i \in Pairs(moves)}
           = {<< b.Stock, DateToStr(b.Date) >> : b \in SeqRange(combined_data)}

(***************************************************************************)
(* A run without a trade (SpecStrategy).                                   *)
(***************************************************************************)
\* main.py:103: the summary reports SUCCESS.
ValidationSuccess ==
    validated_cash # FAILURE /\ Abs(final_cash - validated_cash) < TOLERANCE

\* C25: for the empty move list validate_moves returns 0.0 whatever the
\* initial cash is, not the initial cash; so when a strategy has made no
\* trade, it returns the initial cash, the validator returns 0 and the
\* comparison of main reports a failure whenever the initial cash is 0.01 or
\* more.
C25_EmptyListReturnsZero ==
    /\ \A c \in {0, 1, initial_cash, final_cash} :
           validate_moves(c, << >>, combined_data) = 0
    /\ (spc = "returned" /\ vpc = "returned" /\ moves = << >>)
           => /\ final_cash = initial_cash
              /\ validated_cash = 0
              /\ initial_cash >= TOLERANCE => ~ValidationSuccess

\* A strategy found no trade worth making with 2.10, main has validated its
\* empty list, and the two amounts of the summary are 2.10 and 0.
C25_Witness ==
    /\ spc = "returned"
    /\ vpc = "returned"
    /\ moves = << >>
    /\ initial_cash = 210
    /\ final_cash = 210
    /\ validated_cash = 0
    /\ ~ValidationSuccess

(***************************************************************************)
(* The sign of the balance of the validator (SpecSigned).                  *)
(***************************************************************************)
\* Every quantity of the list is >= 0.
QuantitiesNonNegative ==
    \A i \in 1..Len(moves) :
        CanParseInt(moves[i][4]) => ParseInt(moves[i][4]) >= 0

\* The loop has run over the whole list and line 106 has returned.
Succeeded == vpc = "returned" /\ move_idx = Len(moves)

\* C26: when initial_cash >= 0 and every quantity is >= 0, daily_cash >= 0
\* and daily_revenue >= 0 after every processed move, so a validation that
\* succeeds returns a balance >= 0, which is never the -1.0 of a failure.
C26_BalanceNeverNegative ==
    (initial_cash >= 0 /\ QuantitiesNonNegative)
        => /\ daily_cash >= 0
           /\ daily_revenue >= 0
           /\ Succeeded => (validated_cash >= 0 /\ validated_cash # FAILURE)

\* From a cash of 0 a buy of 0 shares (cost 0, cash stays 0) and a sell of one
\* share at the high of 2 have been validated: the balance is 1.98.
C26_Witness ==
    /\ initial_cash = 0
    /\ moves = << Move(DateToStr(1), "buy-open", "X", IntToStr(0)),
                  Move(DateToStr(1), "sell-high", "X", IntToStr(1)) >>
    /\ Succeeded
    /\ daily_cash = 0
    /\ validated_cash = 2 * SELL_REVENUE_FACTOR

\* Outside the premises of C26 the balance of a success can be the value of
\* a failure: from a cash of -1.00 a move with an unsupported action is
\* validated and the balance returned is -1.00.
NegativeCashLooksFailed ==
    /\ initial_cash = 0 - Scale
    /\ moves = << Move(DateToStr(1), "hold", "X", IntToStr(1)) >>
    /\ Succeeded
    /\ validated_cash = FAILURE

(***************************************************************************)
(* The validator keeps no inventory of shares (Spec).                      *)
(***************************************************************************)
\* The move the loop is about to process.
NextMove == moves[move_idx + 1]

\* The date of the move is not before current_date.
DateInOrder(m) == current_date = NoDate \/ ParseDate(m[1]) >= current_date

\* The shares of the stock of move k bought minus sold by the moves before
\* it.
SharesHeld(k) ==
    Sum([j \in 1..(k - 1) |->
            IF moves[j][3] # moves[k][3] \/ ~CanParseInt(moves[j][4]) THEN 0
            ELSE IF IsBuy(moves[j]) THEN ParseInt(moves[j][4])
            ELSE IF IsSell(moves[j]) THEN 0 - ParseInt(moves[j][4])
            ELSE 0])

\* C27: validate_moves keeps no inventory of shares. A sell-high or
\* sell-close move is accepted whenever its date is in order, its bar exists
\* and its quantity is at most the Max_Quantity of the bar, whether or not a
\* buy came before it; and a list made of such sell legs only is accepted
\* and returns initial_cash plus the sum of the proceeds.
C27_NoInventory ==
    /\ [][(vpc = "loop" /\ move_idx < Len(moves) /\ IsSell(NextMove)
             /\ PassesMoveChecks(NextMove) /\ DateInOrder(NextMove))
            => /\ vpc' = "loop"
               /\ move_idx' = move_idx + 1
               /\ daily_revenue' - (IF current_date = NoDate
                                        \/ ParseDate(NextMove[1]) > current_date
                                    THEN 0 ELSE daily_revenue)
                      = MoveProceeds(NextMove)]_vars
    /\ []((vpc = "returned" /\ moves # << >>
             /\ (\A i \in 1..Len(moves) :
                     IsSell(moves[i]) /\ PassesMoveChecks(moves[i]))
             /\ InOrder(Len(moves)))
            => /\ validated_cash # FAILURE
               /\ validated_cash
                      = initial_cash
                        + Sum([i \in 1..Len(moves) |-> MoveProceeds(moves[i])]))

\* A list of three sell legs of two dates and no buy has been validated from
\* 1.50: the last sell was accepted with the stock at two shares sold and
\* none bought, and the balance is the cash plus the proceeds.
C27_Witness ==
    /\ Len(moves) = 3
    /\ \A i \in 1..3 : IsSell(moves[i]) /\ PassesMoveChecks(moves[i])
    /\ ParseDate(moves[1][1]) < ParseDate(moves[3][1])
    /\ SharesHeld(3) = 0 - 2
    /\ initial_cash = 150
    /\ vpc = "returned"
    /\ move_idx = 3
    /\ validated_cash
           = 150 + Sum([i \in 1..3 |-> MoveProceeds(moves[i])])
    /\ validated_cash > 150
====
